---- MODULE Spec2Model ----
(***************************************************************************)
(* Model of work_ical_invoice: the ledger reconcile (update_course of      *)
(* ics_to_workfile.py), the section locator used for invoice lookup        *)
(* (find_section of workfile_to_invoice.py), the approximate matching of   *)
(* texts (approxmatch.py), the invoice reconcile (update_invoice) and the  *)
(* replacement of the file at the end of both command lines.               *)
(*                                                                         *)
(* Python objects live in a heap: an entry is a record stored at an        *)
(* object id, a section is a list of object ids, so that two references to *)
(* one object see each other's writes.  Dates are day numbers, hours are   *)
(* exact decimals counted in a fixed unit, texts are tuples of characters. *)
(***************************************************************************)
EXTENDS Integers, Sequences, FiniteSets, TLC

VARIABLES heap,      \* object id -> entry record
          wf,        \* Workfile.sections: list of sections, each a list of ids
          newsec,    \* the newsec argument of the last update_course call
          icsstart,  \* the icsstart argument
          icsend,    \* the icsend argument
          pc,        \* "read": before update_course, then "updated", "repeated";
                     \* "lookup": before find_section, then "found"
          obs,       \* what the last update_course did (history, read by the properties)
          today,     \* datetime.date.today()
          query,     \* the title argument of find_section
          found,     \* what find_section returned or raised
          args,      \* the arguments of a call of approxmatch.py: a list of texts
          ret,       \* what that call returned or raised
          inv,       \* the Invoice object: its items and its invdate
          invobs,    \* what the last update_invoice did (history, read by the properties)
          files,     \* the file system: the content of each file, or Absent
          opts       \* the command line of the run and the answer typed at the prompt

vars == <<heap, wf, newsec, icsstart, icsend, pc, obs, today, query, found, args, ret,
          inv, invobs, files, opts>>

ledgerVars == <<heap, wf, newsec, icsstart, icsend, obs, today, query, found>>
textVars == <<args, ret>>
invoiceVars == <<inv, invobs>>
fileVars == <<files, opts>>

(***************************************************************************)
(* Bounds of the model.                                                    *)
(***************************************************************************)
MaxHours == 3        \* hours of an entry range over 1..MaxHours
MaxBody == 2         \* dated entries of a section, besides those its layout adds
MaxNew == 2          \* dated entries of newsec
MaxSections == 3     \* sections of the ledger find_section searches
MaxWord == 3         \* characters of a word given to levenshtein
MaxHay == 2          \* texts of the haystack given to approx_match
MaxItems == 2        \* items of the invoice update_invoice is given
IcsStart == 100      \* day number of the Monday of the planning's week
Today == 200         \* day number of the day find_section runs

(***************************************************************************)
(* Program constants.                                                      *)
(***************************************************************************)
SearchMargin == 92   \* datetime.timedelta(days=92)
IcsRate == 80        \* WorkfileEntryFull(date, total_duration, 80)
RecentDays == 91     \* datetime.timedelta(days=91)
AheadDays == 30      \* datetime.timedelta(days=30)

(***************************************************************************)
(* Generic helpers.                                                        *)
(***************************************************************************)
Max2(a, b) == IF a >= b THEN a ELSE b
Min2(a, b) == IF a <= b THEN a ELSE b
MinOf(S) == CHOOSE x \in S : \A y \in S : x <= y

RECURSIVE SumSeq(_)
SumSeq(s) == IF s = <<>> THEN 0 ELSE Head(s) + SumSeq(Tail(s))

RECURSIVE Flatten(_)
Flatten(ss) == IF ss = <<>> THEN <<>> ELSE Head(ss) \o Flatten(Tail(ss))

Range(s) == {s[i] : i \in 1..Len(s)}

SeqsUpTo(S, n) == UNION {[1..m -> S] : m \in 0..n}

(***************************************************************************)
(* Entries.  None is the Python None of an absent title or annotation.     *)
(***************************************************************************)
None == <<"<None>">>

WorkfileEntryFull(d, h, r, c, p) ==
    [k |-> "full", date |-> d, hours |-> h, rate |-> r, comment |-> c, prespaces |-> p]

WorkfileEntryComment(c) ==
    [k |-> "comment", date |-> 0, hours |-> 0, rate |-> 0, comment |-> c, prespaces |-> 0]

IsFull(h, id) == h[id].k = "full"

\* dataclass __eq__: same class, and the compare=True fields are equal
EntryEq(x, y) ==
    /\ x.k = y.k
    /\ IF x.k = "full"
       THEN x.date = y.date /\ x.hours = y.hours /\ x.rate = y.rate
       ELSE x.comment = y.comment

\* dataclass __lt__ of two full entries: tuple order on (date, hours, rate)
EntryLt(x, y) ==
    \/ x.date < y.date
    \/ x.date = y.date /\ x.hours < y.hours
    \/ x.date = y.date /\ x.hours = y.hours /\ x.rate < y.rate

(***************************************************************************)
(* WorkfileSection.                                                        *)
(***************************************************************************)
RECURSIVE title_comment_count(_, _)
title_comment_count(h, ent) ==
    IF ent = <<>> \/ IsFull(h, Head(ent)) THEN 0
    ELSE 1 + title_comment_count(h, Tail(ent))

RECURSIVE JoinLines(_, _)
JoinLines(h, ids) ==
    IF Len(ids) = 1 THEN h[ids[1]].comment
    ELSE h[ids[1]].comment \o <<"\n">> \o JoinLines(h, Tail(ids))

title(h, ent) ==
    LET n == title_comment_count(h, ent)
    IN  IF n = 0 THEN None ELSE JoinLines(h, SubSeq(ent, 1, n))

full_entries(h, ent) == SelectSeq(ent, LAMBDA id : IsFull(h, id))

FullDates(h, ent) == {h[id].date : id \in Range(full_entries(h, ent))}

first_date(h, ent) == CHOOSE d \in FullDates(h, ent) : \A e \in FullDates(h, ent) : d <= e

last_date(h, ent) == CHOOSE d \in FullDates(h, ent) : \A e \in FullDates(h, ent) : d >= e

\* sorted(): stable insertion of one object id into a sorted list of ids
RECURSIVE InsertSorted(_, _, _)
InsertSorted(h, s, id) ==
    IF s = <<>> THEN <<id>>
    ELSE IF EntryLt(h[id], h[Head(s)]) THEN <<id>> \o s
    ELSE <<Head(s)>> \o InsertSorted(h, Tail(s), id)

RECURSIVE sorted(_, _)
sorted(h, s) ==
    IF s = <<>> THEN <<>>
    ELSE InsertSorted(h, sorted(h, SubSeq(s, 1, Len(s) - 1)), s[Len(s)])

\* variant: the dated entries after the title block are sorted, the comments
\* between them come first
sort_AroundComments(h, ent) ==
    LET n == title_comment_count(h, ent)
        body == SubSeq(ent, n + 1, Len(ent))
    IN  [ok |-> TRUE,
         ent |-> SubSeq(ent, 1, n) \o SelectSeq(body, LAMBDA id : ~IsFull(h, id))
                    \o sorted(h, SelectSeq(body, LAMBDA id : IsFull(h, id)))]

\* WorkfileSection.sort: [ok |-> FALSE] stands for UnsortableError
sort(h, ent) ==
    LET n == title_comment_count(h, ent)
        body == SubSeq(ent, n + 1, Len(ent))
    IN  IF \E i \in 1..Len(body) : ~IsFull(h, body[i])
        THEN [ok |-> FALSE, ent |-> ent]
        ELSE [ok |-> TRUE, ent |-> SubSeq(ent, 1, n) \o sorted(h, body)]

\* variant: the entries of the section compared with newsec are all its
\* dated entries, whatever their date
filtered_full_entries_AnyDate(h, ent, start, end) == full_entries(h, ent)

(***************************************************************************)
(* WorkfileSectionFiltered and WorkfileFiltered.                           *)
(***************************************************************************)
filtered_full_entries(h, ent, start, end) ==
    SelectSeq(full_entries(h, ent), LAMBDA id : h[id].date < end /\ h[id].date >= start)

\* WorkfileFiltered.sections: the indexes, in ledger order, of the sections kept
WorkfileFiltered_sections(h, secs, start, end, ttl) ==
    SelectSeq([i \in 1..Len(secs) |-> i],
              LAMBDA i :
                /\ FullDates(h, secs[i]) # {}
                /\ ~(ttl # None /\ title(h, secs[i]) # ttl)
                /\ first_date(h, secs[i]) < end
                /\ last_date(h, secs[i]) >= start)

(***************************************************************************)
(* collections.Counter: a dict, here the list of its items [key, n] in     *)
(* insertion order.  The key is the object first inserted under its value. *)
(***************************************************************************)
CounterIndex(h, c, x) ==
    IF \E i \in 1..Len(c) : EntryEq(h[c[i].key], x)
    THEN CHOOSE i \in 1..Len(c) : EntryEq(h[c[i].key], x)
    ELSE 0

RECURSIVE Counter(_, _)
Counter(h, ids) ==
    IF ids = <<>> THEN <<>>
    ELSE LET c == Counter(h, SubSeq(ids, 1, Len(ids) - 1))
             id == ids[Len(ids)]
             i == CounterIndex(h, c, h[id])
         IN  IF i = 0 THEN Append(c, [key |-> id, n |-> 1])
             ELSE [c EXCEPT ![i].n = @ + 1]

CounterGet(h, c, x) ==
    LET i == CounterIndex(h, c, x) IN IF i = 0 THEN 0 ELSE c[i].n

\* variant: a subtraction that keeps the keys whose count reaches zero
CounterSub_KeepsZero(h, a, b) ==
    SelectSeq([i \in 1..Len(a) |-> [key |-> a[i].key, n |-> a[i].n - CounterGet(h, b, h[a[i].key])]],
              LAMBDA it : it.n >= 0)

\* Counter.__sub__: the keys of a, in a's order, whose count stays positive
CounterSub(h, a, b) ==
    SelectSeq([i \in 1..Len(a) |-> [key |-> a[i].key, n |-> a[i].n - CounterGet(h, b, h[a[i].key])]],
              LAMBDA it : it.n > 0)

\* Counter.elements(): each key repeated n times, keys with n < 1 skipped
RECURSIVE elements(_)
elements(c) ==
    IF c = <<>> THEN <<>>
    ELSE [i \in 1..Max2(0, Head(c).n) |-> Head(c).key] \o elements(Tail(c))

\* c[key] -= 1 for a key object found in the dict
CounterDec(c, id) ==
    LET i == CHOOSE j \in 1..Len(c) : c[j].key = id
    IN  [c EXCEPT ![i].n = @ - 1]

RECURSIVE CounterDecAll(_, _)
CounterDecAll(c, ids) ==
    IF ids = <<>> THEN c ELSE CounterDecAll(CounterDec(c, Head(ids)), Tail(ids))

HoursOf(h, ids) == SumSeq([i \in 1..Len(ids) |-> h[ids[i]].hours])

(***************************************************************************)
(* partial_entry_matches                                                   *)
(***************************************************************************)
partial_entry_matches(h, entry, entries) ==
    LET el == elements(entries)
        sameDate(id) == h[id].date = h[entry].date
    IN  [datematch |->
            SelectSeq(el, LAMBDA id : sameDate(id) /\ h[id].hours # h[entry].hours
                                                   /\ h[id].rate # h[entry].rate),
         datehoursmatch |->
            SelectSeq(el, LAMBDA id : sameDate(id) /\ h[id].hours = h[entry].hours),
         dateratematch |->
            SelectSeq(el, LAMBDA id : sameDate(id) /\ h[id].rate = h[entry].rate)]

(***************************************************************************)
(* update_course.  The cascade works on a record st:                       *)
(*   h, ent      the heap and wfsec.entries                                *)
(*   add, rem    added_entries and removed_entries                         *)
(*   n0          len(added_entries) when the running loop started          *)
(*   stale       objects whose hours were written after they became keys   *)
(*   fresh       the items of add inserted under a key since its last write *)
(*   looks       the lookups made so far that hit[k] decided                *)
(*   err         "" or the exception that ended the call                   *)
(*   log         the branches taken, one event per loop iteration          *)
(*   snaps       add and rem as each finished pass left them               *)
(***************************************************************************)
Counters(st) == [add |-> st.add, rem |-> st.rem]

\* an event: the added entry a and its hours when the branch was taken, the
\* matches the branch used, and the rate-matches a had at that moment
Event(pass, kind, st, a, m) ==
    [pass |-> pass, kind |-> kind, a |-> a, ahours |-> st.h[a].hours, matches |-> m,
     ratematches |-> partial_entry_matches(st.h, a, st.rem).dateratematch]

\* added_entries[added_entry] -= 1, a dict lookup by hash and then by identity
\* or value.  A key whose hours were written since it was inserted (stale) is
\* stored under the hash of its old value and looked up under the new one:
\*   - an entry inserted under the key since it was last written is found;
\*   - else the probe may meet the key's own entry and find it by identity,
\*     depending on the hash values: hit[k] says so for the k-th such lookup
\*     of the call;
\*   - else another key that was not written and is equal by value is found,
\*     and its count is the one decremented;
\*   - else nothing is found: Counter reads 0 and inserts the object a second
\*     time with -1.
DecAdded(st, a, hit) ==
    LET own == {j \in 1..Len(st.add) : st.add[j].key = a}
        other == {j \in 1..Len(st.add) :
                    /\ st.add[j].key # a
                    /\ st.add[j].key \notin st.stale
                    /\ EntryEq(st.h[st.add[j].key], st.h[a])}
        finds == st.looks < Len(hit) /\ hit[st.looks + 1]
    IN  IF a \notin st.stale
        THEN [st EXCEPT !.add[MinOf(own)].n = @ - 1]
        ELSE IF own \cap st.fresh # {}
        THEN [st EXCEPT !.add[MinOf(own \cap st.fresh)].n = @ - 1]
        ELSE IF finds
        THEN [st EXCEPT !.add[MinOf(own)].n = @ - 1, !.looks = @ + 1]
        ELSE IF other # {}
        THEN [st EXCEPT !.add[MinOf(other)].n = @ - 1, !.looks = @ + 1]
        ELSE [st EXCEPT !.add = Append(@, [key |-> a, n |-> 0 - 1]),
                        !.fresh = @ \cup {Len(st.add) + 1},
                        !.looks = @ + 1]

\* list.index / list.remove compare by value: the first entry equal to x, 0 if none
ListIndex(h, ent, x) ==
    IF \E i \in 1..Len(ent) : EntryEq(h[ent[i]], x)
    THEN CHOOSE i \in 1..Len(ent) :
            /\ EntryEq(h[ent[i]], x)
            /\ \A j \in 1..(i - 1) : ~EntryEq(h[ent[j]], x)
    ELSE 0

\* variant: a sum-match that consumes the added entry only
SumMatchBody_KeepsRemoved(st, a, hit) ==
    LET m == partial_entry_matches(st.h, a, st.rem).dateratematch
    IN  IF HoursOf(st.h, m) = st.h[a].hours /\ Len(m) > 1
        THEN [DecAdded(st, a, hit) EXCEPT
                        !.log = Append(@, Event("sum", "sum", st, a, m))]
        ELSE st

\* lines 393-401
SumMatchBody(st, a, hit) ==
    LET m == partial_entry_matches(st.h, a, st.rem).dateratematch
    IN  IF HoursOf(st.h, m) = st.h[a].hours /\ Len(m) > 1
        THEN [DecAdded(st, a, hit) EXCEPT
                        !.rem = CounterDecAll(st.rem, m),
                        !.log = Append(@, Event("sum", "sum", st, a, m))]
        ELSE st

\* variant: a single-match fix that consumes both sides and writes nothing
FixSingle_KeepsHours(st, a, hit, m) ==
    [DecAdded(st, a, hit) EXCEPT
               !.rem = CounterDec(st.rem, m[1]),
               !.log = Append(@, Event("fix", "single", st, a, m))]

\* lines 410-418: one rate-match; the first entry of the section equal to it
\* takes the hours of the added entry
FixSingle(st, a, hit, m) ==
    LET idx == ListIndex(st.h, st.ent, st.h[m[1]])
    IN  IF idx = 0
        THEN [DecAdded(st, a, hit) EXCEPT
                        !.rem = CounterDec(st.rem, m[1]),
                        !.err = "ValueError"]
        ELSE [DecAdded(st, a, hit) EXCEPT
                        !.rem = CounterDec(st.rem, m[1]),
                        !.h = [st.h EXCEPT ![st.ent[idx]].hours = st.h[a].hours],
                        !.stale = @ \cup {st.ent[idx]},
                        !.log = Append(@, Event("fix", "single", st, a, m))]

\* variant: a shortfall that appends the added entry with all its hours
FixShortfall_FullHours(st, a, hit, m) ==
    [DecAdded(st, a, hit) EXCEPT
               !.rem = CounterDecAll(st.rem, m),
               !.ent = Append(@, a),
               !.log = Append(@, Event("fix", "shortfall", st, a, m))]

\* lines 421-431: several rate-matches that fall short; the added entry
\* object itself is given the remaining hours and appended
FixShortfall(st, a, hit, m) ==
    [DecAdded(st, a, hit) EXCEPT
               !.rem = CounterDecAll(st.rem, m),
               !.h = [st.h EXCEPT ![a].hours = st.h[a].hours - HoursOf(st.h, m)],
               !.stale = @ \cup {a},
               !.fresh = {},         \* the item the lookup may have inserted is stale too
               !.ent = Append(@, a),
               !.log = Append(@, Event("fix", "shortfall", st, a, m))]

\* variant: an excess consumes the added entry
FixPartialBody_ExcessConsumes(st, a, hit) ==
    LET m == partial_entry_matches(st.h, a, st.rem).dateratematch
        total == HoursOf(st.h, m)
    IN  IF Len(m) = 1 THEN FixSingle(st, a, hit, m)
        ELSE IF Len(m) > 1 /\ total < st.h[a].hours THEN FixShortfall(st, a, hit, m)
        ELSE IF Len(m) > 1 /\ total > st.h[a].hours
        THEN [DecAdded(st, a, hit) EXCEPT
                        !.log = Append(@, Event("fix", "excess", st, a, m))]
        ELSE st

\* lines 406-437
FixPartialBody(st, a, hit) ==
    LET m == partial_entry_matches(st.h, a, st.rem).dateratematch
        total == HoursOf(st.h, m)
    IN  IF Len(m) = 1 THEN FixSingle(st, a, hit, m)
        ELSE IF Len(m) > 1 /\ total < st.h[a].hours THEN FixShortfall(st, a, hit, m)
        ELSE IF Len(m) > 1 /\ total > st.h[a].hours
        THEN [st EXCEPT !.log = Append(@, Event("fix", "excess", st, a, m))]
        ELSE st

\* variant: the added entry is decremented inside the loop over the matches
RateMismatchBody_DecPerMatch(st, a, hit) ==
    LET m == partial_entry_matches(st.h, a, st.rem).datehoursmatch
        i == CHOOSE j \in 1..Len(st.add) : st.add[j].key = a
    IN  IF Len(m) > 0
        THEN [st EXCEPT !.add[i].n = @ - Len(m),
                        !.rem = CounterDecAll(st.rem, m),
                        !.log = Append(@, Event("rate", "ratemismatch", st, a, m))]
        ELSE st

\* lines 442-450
RateMismatchBody(st, a, hit) ==
    LET m == partial_entry_matches(st.h, a, st.rem).datehoursmatch
    IN  IF Len(m) > 0
        THEN [DecAdded(st, a, hit) EXCEPT
                        !.rem = CounterDecAll(st.rem, m),
                        !.log = Append(@, Event("rate", "ratemismatch", st, a, m))]
        ELSE st

\* lines 454-460: diagnostics only
DateOnlyBody(st, a, hit) ==
    LET m == partial_entry_matches(st.h, a, st.rem).datematch
    IN  IF Len(m) > 0
        THEN [st EXCEPT !.log = Append(@, Event("date", "dateonly", st, a, m))]
        ELSE st

PassBody(pass, st, a, hit) ==
    CASE pass = "sum" -> SumMatchBody(st, a, hit)
      [] pass = "fix" -> FixPartialBody(st, a, hit)
      [] pass = "rate" -> RateMismatchBody(st, a, hit)
      [] pass = "date" -> DateOnlyBody(st, a, hit)

\* for added_entry in added_entries.elements(): the dict iterator reads the
\* count of an item when it reaches it, repeats the key that many times, and
\* raises RuntimeError when it advances after the dict has grown.
RECURSIVE RunPass(_, _, _, _, _)
RunPass(pass, st, hit, i, r) ==
    IF st.err # "" THEN st
    ELSE IF r > 0 THEN RunPass(pass, PassBody(pass, st, st.add[i].key, hit), hit, i, r - 1)
    ELSE IF Len(st.add) # st.n0 THEN [st EXCEPT !.err = "RuntimeError"]
    ELSE IF i = st.n0 THEN [st EXCEPT !.snaps = Append(@, Counters(st))]
    ELSE RunPass(pass, st, hit, i + 1, Max2(0, st.add[i + 1].n))

Pass(pass, st, hit) == RunPass(pass, [st EXCEPT !.n0 = Len(st.add)], hit, 0, 0)

\* lines 467-468: remove, by value, one entry per surviving removed entry
RECURSIVE RemoveAll(_, _)
RemoveAll(st, ids) ==
    IF ids = <<>> \/ st.err # "" THEN st
    ELSE LET idx == ListIndex(st.h, st.ent, st.h[Head(ids)])
         IN  IF idx = 0 THEN [st EXCEPT !.err = "ValueError"]
             ELSE RemoveAll([st EXCEPT !.ent = SubSeq(@, 1, idx - 1) \o SubSeq(@, idx + 1, Len(@))],
                            Tail(ids))

\* variant: the new entries are added and no removed entry is discarded
ApplyRemainder_KeepsRemoved(st) ==
    IF st.err # "" THEN st
    ELSE [st EXCEPT !.ent = @ \o elements(st.add)]

\* lines 463-468
ApplyRemainder(st) ==
    IF st.err # "" THEN st
    ELSE RemoveAll([st EXCEPT !.ent = @ \o elements(st.add)], elements(st.rem))

\* What a call leaves behind for the properties to read: the outcome, the
\* located section, the two multisets after lines 383-384 (diff), after each
\* pass (snaps) and when the call ended (last), wfsec.entries after lines
\* 463-468, the branches taken.
Result(h, secs, outcome, target, diff, snaps, applied, log, last) ==
    [h |-> h, wf |-> secs, outcome |-> outcome, target |-> target, diff |-> diff,
     snaps |-> snaps, applied |-> applied, log |-> log, last |-> last]

\* lines 392-468
Cascade(st0, hit) ==
    ApplyRemainder(Pass("date", Pass("rate", Pass("fix", Pass("sum", st0, hit), hit), hit), hit))

\* lines 470-479, and what an exception leaves behind
Finish(secs, t, st0, st) ==
    LET srt == sort(st.h, st.ent)
        outcome == IF st.err # "" THEN st.err
                   ELSE IF Len(st.add) = 0 /\ Len(st.rem) = 0 THEN "untouched"
                   ELSE IF srt.ok THEN "sorted"
                   ELSE "unsortable"
    IN  Result(st.h, [secs EXCEPT ![t] = IF outcome = "sorted" THEN srt.ent ELSE st.ent],
               outcome, t, Counters(st0), st.snaps, st.ent, st.log, Counters(st))

\* lines 377-384
Merge(h, secs, ns, t, start, end, hit) ==
    LET newsec_entries == Counter(h, full_entries(h, ns))
        current_entries == Counter(h, filtered_full_entries(h, secs[t], start, end))
        st0 == [h |-> h, ent |-> secs[t],
                add |-> CounterSub(h, newsec_entries, current_entries),
                rem |-> CounterSub(h, current_entries, newsec_entries),
                n0 |-> 0, stale |-> {}, fresh |-> {}, looks |-> 0,
                err |-> "", log |-> <<>>, snaps |-> <<>>]
    IN  Finish(secs, t, st0, Cascade(st0, hit))

\* variant: several matching sections, and the first one is reconciled
update_course_MergesFirst(h, secs, ns, start, end, hit) ==
    LET wff == WorkfileFiltered_sections(h, secs, start - SearchMargin, end + SearchMargin,
                                         title(h, ns))
    IN  IF Len(wff) = 0
        THEN Result(h, Append(secs, ns), "added", 0, [add |-> <<>>, rem |-> <<>>], <<>>, <<>>, <<>>,
                    [add |-> <<>>, rem |-> <<>>])
        ELSE Merge(h, secs, ns, wff[1], Max2(start, start - SearchMargin),
                   Min2(end, end + SearchMargin), hit)

\* lines 359-479.  hit: for each dict lookup by a key with a stale hash, in
\* the order the call makes them, whether the probe meets the key's own entry.
update_course(h, secs, ns, start, end, hit) ==
    LET sec_search_start == start - SearchMargin
        sec_search_end == end + SearchMargin
        wff == WorkfileFiltered_sections(h, secs, sec_search_start, sec_search_end, title(h, ns))
    IN  IF Len(wff) > 1
        THEN Result(h, secs, "several", 0, [add |-> <<>>, rem |-> <<>>], <<>>, <<>>, <<>>,
                    [add |-> <<>>, rem |-> <<>>])
        ELSE IF Len(wff) = 0
        THEN Result(h, Append(secs, ns), "added", 0, [add |-> <<>>, rem |-> <<>>], <<>>, <<>>, <<>>,
                    [add |-> <<>>, rem |-> <<>>])
        ELSE \* wff.sections[0].filter(icsstart, icsend) intersects the two windows
             Merge(h, secs, ns, wff[1], Max2(start, sec_search_start),
                   Min2(end, sec_search_end), hit)

(***************************************************************************)
(* approxmatch.py.  A text is a tuple of one-character strings.            *)
(***************************************************************************)
\* A character is a one-character string; a character that a string of this
\* module cannot hold (the parser refuses it) is the string of its code
\* point, as in "U+2000".
\*
\* str.lower, by the case mappings of the Unicode tables of the interpreter
\* (Unicode 14): the characters with a one-character lowercase other than
\* themselves, capital sigma apart
ToLower ==
    LET upper ==
          <<"A", "B", "C", "D", "E", "F", "G", "H", "I", "J", "K", "L", "M", "N", "O", "P", "Q",
            "R", "S", "T", "U", "V", "W", "X", "Y", "Z", "À", "Á", "Â", "Ã", "Ä", "Å", "Æ", "Ç",
            "È", "É", "Ê", "Ë", "Ì", "Í", "Î", "Ï", "Ð", "Ñ", "Ò", "Ó", "Ô", "Õ", "Ö", "Ø", "Ù",
            "Ú", "Û", "Ü", "Ý", "Þ", "U+0100", "U+0102", "U+0104", "U+0106", "U+0108", "U+010A",
            "U+010C", "U+010E", "U+0110", "U+0112", "U+0114", "U+0116", "U+0118", "U+011A",
            "U+011C", "U+011E", "U+0120", "U+0122", "U+0124", "U+0126", "U+0128", "U+012A",
            "U+012C", "U+012E", "U+0132", "U+0134", "U+0136", "U+0139", "U+013B", "U+013D",
            "U+013F", "U+0141", "U+0143", "U+0145", "U+0147", "U+014A", "U+014C", "U+014E",
            "U+0150", "U+0152", "U+0154", "U+0156", "U+0158", "U+015A", "U+015C", "U+015E",
            "U+0160", "U+0162", "U+0164", "U+0166", "U+0168", "U+016A", "U+016C", "U+016E",
            "U+0170", "U+0172", "U+0174", "U+0176", "U+0178", "U+0179", "U+017B", "U+017D", "Ɓ",
            "Ƃ", "Ƅ", "Ɔ", "Ƈ", "Ɖ", "Ɗ", "Ƌ", "Ǝ", "Ə", "Ɛ", "Ƒ", "Ɠ", "Ɣ", "Ɩ", "Ɨ", "Ƙ", "Ɯ",
            "Ɲ", "Ɵ", "Ơ", "Ƣ", "Ƥ", "Ʀ", "Ƨ", "Ʃ", "Ƭ", "Ʈ", "Ư", "Ʊ", "Ʋ", "Ƴ", "Ƶ", "Ʒ", "Ƹ",
            "Ƽ", "Ǆ", "ǅ", "Ǉ", "ǈ", "Ǌ", "ǋ", "Ǎ", "Ǐ", "Ǒ", "Ǔ", "Ǖ", "Ǘ", "Ǚ", "Ǜ", "Ǟ", "Ǡ",
            "Ǣ", "Ǥ", "Ǧ", "Ǩ", "Ǫ", "Ǭ", "Ǯ", "Ǳ", "ǲ", "Ǵ", "Ƕ", "Ƿ", "Ǹ", "Ǻ", "Ǽ", "Ǿ",
            "U+0200", "U+0202", "U+0204", "U+0206", "U+0208", "U+020A", "U+020C", "U+020E",
            "U+0210", "U+0212", "U+0214", "U+0216", "U+0218", "U+021A", "U+021C", "U+021E",
            "U+0220", "U+0222", "U+0224", "U+0226", "U+0228", "U+022A", "U+022C", "U+022E",
            "U+0230", "U+0232", "U+023A", "U+023B", "U+023D", "U+023E", "U+0241", "U+0243",
            "U+0244", "U+0245", "U+0246", "U+0248", "U+024A", "U+024C", "U+024E", "U+0370",
            "U+0372", "U+0376", "U+037F", "Ά", "Έ", "Ή", "Ί", "Ό", "Ύ", "Ώ", "Α", "Β", "Γ", "Δ",
            "Ε", "Ζ", "Η", "Θ", "Ι", "Κ", "Λ", "Μ", "Ν", "Ξ", "Ο", "Π", "Ρ", "Τ", "Υ", "Φ", "Χ",
            "Ψ", "Ω", "Ϊ", "Ϋ", "Ϗ", "Ϙ", "Ϛ", "Ϝ", "Ϟ", "Ϡ", "Ϣ", "Ϥ", "Ϧ", "Ϩ", "Ϫ", "Ϭ", "Ϯ",
            "ϴ", "Ϸ", "Ϲ", "Ϻ", "Ͻ", "Ͼ", "Ͽ", "U+0400", "U+0401", "U+0402", "U+0403", "U+0404",
            "U+0405", "U+0406", "U+0407", "U+0408", "U+0409", "U+040A", "U+040B", "U+040C",
            "U+040D", "U+040E", "U+040F", "U+0410", "U+0411", "U+0412", "U+0413", "U+0414",
            "U+0415", "U+0416", "U+0417", "U+0418", "U+0419", "U+041A", "U+041B", "U+041C",
            "U+041D", "U+041E", "U+041F", "U+0420", "U+0421", "U+0422", "U+0423", "U+0424",
            "U+0425", "U+0426", "U+0427", "U+0428", "U+0429", "U+042A", "U+042B", "U+042C",
            "U+042D", "U+042E", "U+042F", "U+0460", "U+0462", "U+0464", "U+0466", "U+0468",
            "U+046A", "U+046C", "U+046E", "U+0470", "U+0472", "U+0474", "U+0476", "U+0478",
            "U+047A", "U+047C", "U+047E", "Ҁ", "Ҋ", "Ҍ", "Ҏ", "Ґ", "Ғ", "Ҕ", "Җ", "Ҙ", "Қ", "Ҝ",
            "Ҟ", "Ҡ", "Ң", "Ҥ", "Ҧ", "Ҩ", "Ҫ", "Ҭ", "Ү", "Ұ", "Ҳ", "Ҵ", "Ҷ", "Ҹ", "Һ", "Ҽ", "Ҿ",
            "Ӏ", "Ӂ", "Ӄ", "Ӆ", "Ӈ", "Ӊ", "Ӌ", "Ӎ", "Ӑ", "Ӓ", "Ӕ", "Ӗ", "Ә", "Ӛ", "Ӝ", "Ӟ", "Ӡ",
            "Ӣ", "Ӥ", "Ӧ", "Ө", "Ӫ", "Ӭ", "Ӯ", "Ӱ", "Ӳ", "Ӵ", "Ӷ", "Ӹ", "Ӻ", "Ӽ", "Ӿ", "U+0500",
            "U+0502", "U+0504", "U+0506", "U+0508", "U+050A", "U+050C", "U+050E", "U+0510",
            "U+0512", "U+0514", "U+0516", "U+0518", "U+051A", "U+051C", "U+051E", "U+0520",
            "U+0522", "U+0524", "U+0526", "U+0528", "U+052A", "U+052C", "U+052E", "U+0531",
            "U+0532", "U+0533", "U+0534", "U+0535", "U+0536", "U+0537", "U+0538", "U+0539",
            "U+053A", "U+053B", "U+053C", "U+053D", "U+053E", "U+053F", "U+0540", "U+0541",
            "U+0542", "U+0543", "U+0544", "U+0545", "U+0546", "U+0547", "U+0548", "U+0549",
            "U+054A", "U+054B", "U+054C", "U+054D", "U+054E", "U+054F", "U+0550", "U+0551",
            "U+0552", "U+0553", "U+0554", "U+0555", "U+0556", "Ⴀ", "Ⴁ", "Ⴂ", "Ⴃ", "Ⴄ", "Ⴅ", "Ⴆ",
            "Ⴇ", "Ⴈ", "Ⴉ", "Ⴊ", "Ⴋ", "Ⴌ", "Ⴍ", "Ⴎ", "Ⴏ", "Ⴐ", "Ⴑ", "Ⴒ", "Ⴓ", "Ⴔ", "Ⴕ", "Ⴖ", "Ⴗ",
            "Ⴘ", "Ⴙ", "Ⴚ", "Ⴛ", "Ⴜ", "Ⴝ", "Ⴞ", "Ⴟ", "Ⴠ", "Ⴡ", "Ⴢ", "Ⴣ", "Ⴤ", "Ⴥ", "Ⴧ", "Ⴭ", "Ꭰ",
            "Ꭱ", "Ꭲ", "Ꭳ", "Ꭴ", "Ꭵ", "Ꭶ", "Ꭷ", "Ꭸ", "Ꭹ", "Ꭺ", "Ꭻ", "Ꭼ", "Ꭽ", "Ꭾ", "Ꭿ", "Ꮀ", "Ꮁ",
            "Ꮂ", "Ꮃ", "Ꮄ", "Ꮅ", "Ꮆ", "Ꮇ", "Ꮈ", "Ꮉ", "Ꮊ", "Ꮋ", "Ꮌ", "Ꮍ", "Ꮎ", "Ꮏ", "Ꮐ", "Ꮑ", "Ꮒ",
            "Ꮓ", "Ꮔ", "Ꮕ", "Ꮖ", "Ꮗ", "Ꮘ", "Ꮙ", "Ꮚ", "Ꮛ", "Ꮜ", "Ꮝ", "Ꮞ", "Ꮟ", "Ꮠ", "Ꮡ", "Ꮢ", "Ꮣ",
            "Ꮤ", "Ꮥ", "Ꮦ", "Ꮧ", "Ꮨ", "Ꮩ", "Ꮪ", "Ꮫ", "Ꮬ", "Ꮭ", "Ꮮ", "Ꮯ", "Ꮰ", "Ꮱ", "Ꮲ", "Ꮳ", "Ꮴ",
            "Ꮵ", "Ꮶ", "Ꮷ", "Ꮸ", "Ꮹ", "Ꮺ", "Ꮻ", "Ꮼ", "Ꮽ", "Ꮾ", "Ꮿ", "Ᏸ", "Ᏹ", "Ᏺ", "Ᏻ", "Ᏼ", "Ᏽ",
            "Ა", "Ბ", "Გ", "Დ", "Ე", "Ვ", "Ზ", "Თ", "Ი", "Კ", "Ლ", "Მ", "Ნ", "Ო", "Პ", "Ჟ", "Რ",
            "Ს", "Ტ", "Უ", "Ფ", "Ქ", "Ღ", "Ყ", "Შ", "Ჩ", "Ც", "Ძ", "Წ", "Ჭ", "Ხ", "Ჯ", "Ჰ", "Ჱ",
            "Ჲ", "Ჳ", "Ჴ", "Ჵ", "Ჶ", "Ჷ", "Ჸ", "Ჹ", "Ჺ", "Ჽ", "Ჾ", "Ჿ", "U+1E00", "U+1E02",
            "U+1E04", "U+1E06", "U+1E08", "U+1E0A", "U+1E0C", "U+1E0E", "U+1E10", "U+1E12",
            "U+1E14", "U+1E16", "U+1E18", "U+1E1A", "U+1E1C", "U+1E1E", "U+1E20", "U+1E22",
            "U+1E24", "U+1E26", "U+1E28", "U+1E2A", "U+1E2C", "U+1E2E", "U+1E30", "U+1E32",
            "U+1E34", "U+1E36", "U+1E38", "U+1E3A", "U+1E3C", "U+1E3E", "U+1E40", "U+1E42",
            "U+1E44", "U+1E46", "U+1E48", "U+1E4A", "U+1E4C", "U+1E4E", "U+1E50", "U+1E52",
            "U+1E54", "U+1E56", "U+1E58", "U+1E5A", "U+1E5C", "U+1E5E", "U+1E60", "U+1E62",
            "U+1E64", "U+1E66", "U+1E68", "U+1E6A", "U+1E6C", "U+1E6E", "U+1E70", "U+1E72",
            "U+1E74", "U+1E76", "U+1E78", "U+1E7A", "U+1E7C", "U+1E7E", "Ẁ", "Ẃ", "Ẅ", "Ẇ", "Ẉ",
            "Ẋ", "Ẍ", "Ẏ", "Ẑ", "Ẓ", "Ẕ", "ẞ", "Ạ", "Ả", "Ấ", "Ầ", "Ẩ", "Ẫ", "Ậ", "Ắ", "Ằ", "Ẳ",
            "Ẵ", "Ặ", "Ẹ", "Ẻ", "Ẽ", "Ế", "Ề", "Ể", "Ễ", "Ệ", "Ỉ", "Ị", "Ọ", "Ỏ", "Ố", "Ồ", "Ổ",
            "Ỗ", "Ộ", "Ớ", "Ờ", "Ở", "Ỡ", "Ợ", "Ụ", "Ủ", "Ứ", "Ừ", "Ử", "Ữ", "Ự", "Ỳ", "Ỵ", "Ỷ",
            "Ỹ", "Ỻ", "Ỽ", "Ỿ", "U+1F08", "U+1F09", "U+1F0A", "U+1F0B", "U+1F0C", "U+1F0D",
            "U+1F0E", "U+1F0F", "U+1F18", "U+1F19", "U+1F1A", "U+1F1B", "U+1F1C", "U+1F1D",
            "U+1F28", "U+1F29", "U+1F2A", "U+1F2B", "U+1F2C", "U+1F2D", "U+1F2E", "U+1F2F",
            "U+1F38", "U+1F39", "U+1F3A", "U+1F3B", "U+1F3C", "U+1F3D", "U+1F3E", "U+1F3F",
            "U+1F48", "U+1F49", "U+1F4A", "U+1F4B", "U+1F4C", "U+1F4D", "U+1F59", "U+1F5B",
            "U+1F5D", "U+1F5F", "U+1F68", "U+1F69", "U+1F6A", "U+1F6B", "U+1F6C", "U+1F6D",
            "U+1F6E", "U+1F6F", "ᾈ", "ᾉ", "ᾊ", "ᾋ", "ᾌ", "ᾍ", "ᾎ", "ᾏ", "ᾘ", "ᾙ", "ᾚ", "ᾛ", "ᾜ",
            "ᾝ", "ᾞ", "ᾟ", "ᾨ", "ᾩ", "ᾪ", "ᾫ", "ᾬ", "ᾭ", "ᾮ", "ᾯ", "Ᾰ", "Ᾱ", "Ὰ", "Ά", "ᾼ", "Ὲ",
            "Έ", "Ὴ", "Ή", "ῌ", "Ῐ", "Ῑ", "Ὶ", "Ί", "Ῠ", "Ῡ", "Ὺ", "Ύ", "Ῥ", "Ὸ", "Ό", "Ὼ", "Ώ",
            "ῼ", "U+2126", "U+212A", "U+212B", "U+2132", "U+2160", "U+2161", "U+2162", "U+2163",
            "U+2164", "U+2165", "U+2166", "U+2167", "U+2168", "U+2169", "U+216A", "U+216B",
            "U+216C", "U+216D", "U+216E", "U+216F", "Ↄ", "Ⓐ", "Ⓑ", "Ⓒ", "Ⓓ", "Ⓔ", "Ⓕ", "Ⓖ", "Ⓗ",
            "Ⓘ", "Ⓙ", "Ⓚ", "Ⓛ", "Ⓜ", "Ⓝ", "Ⓞ", "Ⓟ", "Ⓠ", "Ⓡ", "Ⓢ", "Ⓣ", "Ⓤ", "Ⓥ", "Ⓦ", "Ⓧ", "Ⓨ",
            "Ⓩ", "U+2C00", "U+2C01", "U+2C02", "U+2C03", "U+2C04", "U+2C05", "U+2C06", "U+2C07",
            "U+2C08", "U+2C09", "U+2C0A", "U+2C0B", "U+2C0C", "U+2C0D", "U+2C0E", "U+2C0F",
            "U+2C10", "U+2C11", "U+2C12", "U+2C13", "U+2C14", "U+2C15", "U+2C16", "U+2C17",
            "U+2C18", "U+2C19", "U+2C1A", "U+2C1B", "U+2C1C", "U+2C1D", "U+2C1E", "U+2C1F",
            "U+2C20", "U+2C21", "U+2C22", "U+2C23", "U+2C24", "U+2C25", "U+2C26", "U+2C27",
            "U+2C28", "U+2C29", "U+2C2A", "U+2C2B", "U+2C2C", "U+2C2D", "U+2C2E", "U+2C2F",
            "U+2C60", "U+2C62", "U+2C63", "U+2C64", "U+2C67", "U+2C69", "U+2C6B", "U+2C6D",
            "U+2C6E", "U+2C6F", "U+2C70", "U+2C72", "U+2C75", "U+2C7E", "U+2C7F", "Ⲁ", "Ⲃ", "Ⲅ",
            "Ⲇ", "Ⲉ", "Ⲋ", "Ⲍ", "Ⲏ", "Ⲑ", "Ⲓ", "Ⲕ", "Ⲗ", "Ⲙ", "Ⲛ", "Ⲝ", "Ⲟ", "Ⲡ", "Ⲣ", "Ⲥ", "Ⲧ",
            "Ⲩ", "Ⲫ", "Ⲭ", "Ⲯ", "Ⲱ", "Ⲳ", "Ⲵ", "Ⲷ", "Ⲹ", "Ⲻ", "Ⲽ", "Ⲿ", "Ⳁ", "Ⳃ", "Ⳅ", "Ⳇ", "Ⳉ",
            "Ⳋ", "Ⳍ", "Ⳏ", "Ⳑ", "Ⳓ", "Ⳕ", "Ⳗ", "Ⳙ", "Ⳛ", "Ⳝ", "Ⳟ", "Ⳡ", "Ⳣ", "Ⳬ", "Ⳮ", "Ⳳ",
            "U+A640", "U+A642", "U+A644", "U+A646", "U+A648", "U+A64A", "U+A64C", "U+A64E",
            "U+A650", "U+A652", "U+A654", "U+A656", "U+A658", "U+A65A", "U+A65C", "U+A65E",
            "U+A660", "U+A662", "U+A664", "U+A666", "U+A668", "U+A66A", "U+A66C", "Ꚁ", "Ꚃ", "Ꚅ",
            "Ꚇ", "Ꚉ", "Ꚋ", "Ꚍ", "Ꚏ", "Ꚑ", "Ꚓ", "Ꚕ", "Ꚗ", "Ꚙ", "Ꚛ", "U+A722", "U+A724", "U+A726",
            "U+A728", "U+A72A", "U+A72C", "U+A72E", "U+A732", "U+A734", "U+A736", "U+A738",
            "U+A73A", "U+A73C", "U+A73E", "U+A740", "U+A742", "U+A744", "U+A746", "U+A748",
            "U+A74A", "U+A74C", "U+A74E", "U+A750", "U+A752", "U+A754", "U+A756", "U+A758",
            "U+A75A", "U+A75C", "U+A75E", "U+A760", "U+A762", "U+A764", "U+A766", "U+A768",
            "U+A76A", "U+A76C", "U+A76E", "U+A779", "U+A77B", "U+A77D", "U+A77E", "Ꞁ", "Ꞃ", "Ꞅ",
            "Ꞇ", "Ꞌ", "Ɥ", "Ꞑ", "Ꞓ", "Ꞗ", "Ꞙ", "Ꞛ", "Ꞝ", "Ꞟ", "Ꞡ", "Ꞣ", "Ꞥ", "Ꞧ", "Ꞩ", "Ɦ", "Ɜ",
            "Ɡ", "Ɬ", "Ɪ", "Ʞ", "Ʇ", "Ʝ", "Ꭓ", "Ꞵ", "Ꞷ", "Ꞹ", "Ꞻ", "Ꞽ", "Ꞿ", "Ꟁ", "Ꟃ", "Ꞔ", "Ʂ",
            "Ᶎ", "Ꟈ", "Ꟊ", "Ꟑ", "Ꟗ", "Ꟙ", "Ꟶ", "U+FF21", "U+FF22", "U+FF23", "U+FF24", "U+FF25",
            "U+FF26", "U+FF27", "U+FF28", "U+FF29", "U+FF2A", "U+FF2B", "U+FF2C", "U+FF2D",
            "U+FF2E", "U+FF2F", "U+FF30", "U+FF31", "U+FF32", "U+FF33", "U+FF34", "U+FF35",
            "U+FF36", "U+FF37", "U+FF38", "U+FF39", "U+FF3A", "U+10400", "U+10401", "U+10402",
            "U+10403", "U+10404", "U+10405", "U+10406", "U+10407", "U+10408", "U+10409",
            "U+1040A", "U+1040B", "U+1040C", "U+1040D", "U+1040E", "U+1040F", "U+10410",
            "U+10411", "U+10412", "U+10413", "U+10414", "U+10415", "U+10416", "U+10417",
            "U+10418", "U+10419", "U+1041A", "U+1041B", "U+1041C", "U+1041D", "U+1041E",
            "U+1041F", "U+10420", "U+10421", "U+10422", "U+10423", "U+10424", "U+10425",
            "U+10426", "U+10427", "U+104B0", "U+104B1", "U+104B2", "U+104B3", "U+104B4",
            "U+104B5", "U+104B6", "U+104B7", "U+104B8", "U+104B9", "U+104BA", "U+104BB",
            "U+104BC", "U+104BD", "U+104BE", "U+104BF", "U+104C0", "U+104C1", "U+104C2",
            "U+104C3", "U+104C4", "U+104C5", "U+104C6", "U+104C7", "U+104C8", "U+104C9",
            "U+104CA", "U+104CB", "U+104CC", "U+104CD", "U+104CE", "U+104CF", "U+104D0",
            "U+104D1", "U+104D2", "U+104D3", "U+10570", "U+10571", "U+10572", "U+10573",
            "U+10574", "U+10575", "U+10576", "U+10577", "U+10578", "U+10579", "U+1057A",
            "U+1057C", "U+1057D", "U+1057E", "U+1057F", "U+10580", "U+10581", "U+10582",
            "U+10583", "U+10584", "U+10585", "U+10586", "U+10587", "U+10588", "U+10589",
            "U+1058A", "U+1058C", "U+1058D", "U+1058E", "U+1058F", "U+10590", "U+10591",
            "U+10592", "U+10594", "U+10595", "U+10C80", "U+10C81", "U+10C82", "U+10C83",
            "U+10C84", "U+10C85", "U+10C86", "U+10C87", "U+10C88", "U+10C89", "U+10C8A",
            "U+10C8B", "U+10C8C", "U+10C8D", "U+10C8E", "U+10C8F", "U+10C90", "U+10C91",
            "U+10C92", "U+10C93", "U+10C94", "U+10C95", "U+10C96", "U+10C97", "U+10C98",
            "U+10C99", "U+10C9A", "U+10C9B", "U+10C9C", "U+10C9D", "U+10C9E", "U+10C9F",
            "U+10CA0", "U+10CA1", "U+10CA2", "U+10CA3", "U+10CA4", "U+10CA5", "U+10CA6",
            "U+10CA7", "U+10CA8", "U+10CA9", "U+10CAA", "U+10CAB", "U+10CAC", "U+10CAD",
            "U+10CAE", "U+10CAF", "U+10CB0", "U+10CB1", "U+10CB2", "U+118A0", "U+118A1",
            "U+118A2", "U+118A3", "U+118A4", "U+118A5", "U+118A6", "U+118A7", "U+118A8",
            "U+118A9", "U+118AA", "U+118AB", "U+118AC", "U+118AD", "U+118AE", "U+118AF",
            "U+118B0", "U+118B1", "U+118B2", "U+118B3", "U+118B4", "U+118B5", "U+118B6",
            "U+118B7", "U+118B8", "U+118B9", "U+118BA", "U+118BB", "U+118BC", "U+118BD",
            "U+118BE", "U+118BF", "U+16E40", "U+16E41", "U+16E42", "U+16E43", "U+16E44",
            "U+16E45", "U+16E46", "U+16E47", "U+16E48", "U+16E49", "U+16E4A", "U+16E4B",
            "U+16E4C", "U+16E4D", "U+16E4E", "U+16E4F", "U+16E50", "U+16E51", "U+16E52",
            "U+16E53", "U+16E54", "U+16E55", "U+16E56", "U+16E57", "U+16E58", "U+16E59",
            "U+16E5A", "U+16E5B", "U+16E5C", "U+16E5D", "U+16E5E", "U+16E5F", "U+1E900",
            "U+1E901", "U+1E902", "U+1E903", "U+1E904", "U+1E905", "U+1E906", "U+1E907",
            "U+1E908", "U+1E909", "U+1E90A", "U+1E90B", "U+1E90C", "U+1E90D", "U+1E90E",
            "U+1E90F", "U+1E910", "U+1E911", "U+1E912", "U+1E913", "U+1E914", "U+1E915",
            "U+1E916", "U+1E917", "U+1E918", "U+1E919", "U+1E91A", "U+1E91B", "U+1E91C",
            "U+1E91D", "U+1E91E", "U+1E91F", "U+1E920", "U+1E921">>
        small ==
          <<"a", "b", "c", "d", "e", "f", "g", "h", "i", "j", "k", "l", "m", "n", "o", "p", "q",
            "r", "s", "t", "u", "v", "w", "x", "y", "z", "à", "á", "â", "ã", "ä", "å", "æ", "ç",
            "è", "é", "ê", "ë", "ì", "í", "î", "ï", "ð", "ñ", "ò", "ó", "ô", "õ", "ö", "ø", "ù",
            "ú", "û", "ü", "ý", "þ", "U+0101", "U+0103", "U+0105", "U+0107", "U+0109", "U+010B",
            "U+010D", "U+010F", "U+0111", "U+0113", "U+0115", "U+0117", "U+0119", "U+011B",
            "U+011D", "U+011F", "U+0121", "U+0123", "U+0125", "U+0127", "U+0129", "U+012B",
            "U+012D", "U+012F", "U+0133", "U+0135", "U+0137", "U+013A", "U+013C", "U+013E",
            "U+0140", "U+0142", "U+0144", "U+0146", "U+0148", "U+014B", "U+014D", "U+014F",
            "U+0151", "U+0153", "U+0155", "U+0157", "U+0159", "U+015B", "U+015D", "U+015F",
            "U+0161", "U+0163", "U+0165", "U+0167", "U+0169", "U+016B", "U+016D", "U+016F",
            "U+0171", "U+0173", "U+0175", "U+0177", "ÿ", "U+017A", "U+017C", "U+017E", "U+0253",
            "ƃ", "ƅ", "U+0254", "ƈ", "U+0256", "U+0257", "ƌ", "ǝ", "U+0259", "U+025B", "ƒ",
            "U+0260", "U+0263", "U+0269", "U+0268", "ƙ", "U+026F", "U+0272", "U+0275", "ơ", "ƣ",
            "ƥ", "ʀ", "ƨ", "ʃ", "ƭ", "ʈ", "ư", "ʊ", "ʋ", "ƴ", "ƶ", "ʒ", "ƹ", "ƽ", "ǆ", "ǆ", "ǉ",
            "ǉ", "ǌ", "ǌ", "ǎ", "ǐ", "ǒ", "ǔ", "ǖ", "ǘ", "ǚ", "ǜ", "ǟ", "ǡ", "ǣ", "ǥ", "ǧ", "ǩ",
            "ǫ", "ǭ", "ǯ", "ǳ", "ǳ", "ǵ", "ƕ", "ƿ", "ǹ", "ǻ", "ǽ", "ǿ", "U+0201", "U+0203",
            "U+0205", "U+0207", "U+0209", "U+020B", "U+020D", "U+020F", "U+0211", "U+0213",
            "U+0215", "U+0217", "U+0219", "U+021B", "U+021D", "U+021F", "ƞ", "U+0223", "U+0225",
            "U+0227", "U+0229", "U+022B", "U+022D", "U+022F", "U+0231", "U+0233", "U+2C65",
            "U+023C", "ƚ", "U+2C66", "U+0242", "ƀ", "ʉ", "ʌ", "U+0247", "U+0249", "U+024B",
            "U+024D", "U+024F", "U+0371", "U+0373", "U+0377", "ϳ", "ά", "έ", "ή", "ί", "ό", "ύ",
            "ώ", "α", "β", "γ", "δ", "ε", "ζ", "η", "θ", "ι", "κ", "λ", "μ", "ν", "ξ", "ο", "π",
            "ρ", "τ", "υ", "φ", "χ", "ψ", "ω", "ϊ", "ϋ", "ϗ", "ϙ", "ϛ", "ϝ", "ϟ", "ϡ", "ϣ", "ϥ",
            "ϧ", "ϩ", "ϫ", "ϭ", "ϯ", "θ", "ϸ", "ϲ", "ϻ", "U+037B", "U+037C", "U+037D", "U+0450",
            "U+0451", "U+0452", "U+0453", "U+0454", "U+0455", "U+0456", "U+0457", "U+0458",
            "U+0459", "U+045A", "U+045B", "U+045C", "U+045D", "U+045E", "U+045F", "U+0430",
            "U+0431", "U+0432", "U+0433", "U+0434", "U+0435", "U+0436", "U+0437", "U+0438",
            "U+0439", "U+043A", "U+043B", "U+043C", "U+043D", "U+043E", "U+043F", "U+0440",
            "U+0441", "U+0442", "U+0443", "U+0444", "U+0445", "U+0446", "U+0447", "U+0448",
            "U+0449", "U+044A", "U+044B", "U+044C", "U+044D", "U+044E", "U+044F", "U+0461",
            "U+0463", "U+0465", "U+0467", "U+0469", "U+046B", "U+046D", "U+046F", "U+0471",
            "U+0473", "U+0475", "U+0477", "U+0479", "U+047B", "U+047D", "U+047F", "ҁ", "ҋ", "ҍ",
            "ҏ", "ґ", "ғ", "ҕ", "җ", "ҙ", "қ", "ҝ", "ҟ", "ҡ", "ң", "ҥ", "ҧ", "ҩ", "ҫ", "ҭ", "ү",
            "ұ", "ҳ", "ҵ", "ҷ", "ҹ", "һ", "ҽ", "ҿ", "ӏ", "ӂ", "ӄ", "ӆ", "ӈ", "ӊ", "ӌ", "ӎ", "ӑ",
            "ӓ", "ӕ", "ӗ", "ә", "ӛ", "ӝ", "ӟ", "ӡ", "ӣ", "ӥ", "ӧ", "ө", "ӫ", "ӭ", "ӯ", "ӱ", "ӳ",
            "ӵ", "ӷ", "ӹ", "ӻ", "ӽ", "ӿ", "U+0501", "U+0503", "U+0505", "U+0507", "U+0509",
            "U+050B", "U+050D", "U+050F", "U+0511", "U+0513", "U+0515", "U+0517", "U+0519",
            "U+051B", "U+051D", "U+051F", "U+0521", "U+0523", "U+0525", "U+0527", "U+0529",
            "U+052B", "U+052D", "U+052F", "U+0561", "U+0562", "U+0563", "U+0564", "U+0565",
            "U+0566", "U+0567", "U+0568", "U+0569", "U+056A", "U+056B", "U+056C", "U+056D",
            "U+056E", "U+056F", "U+0570", "U+0571", "U+0572", "U+0573", "U+0574", "U+0575",
            "U+0576", "U+0577", "U+0578", "U+0579", "U+057A", "U+057B", "U+057C", "U+057D",
            "U+057E", "U+057F", "ր", "ց", "ւ", "փ", "ք", "օ", "ֆ", "U+2D00", "U+2D01", "U+2D02",
            "U+2D03", "U+2D04", "U+2D05", "U+2D06", "U+2D07", "U+2D08", "U+2D09", "U+2D0A",
            "U+2D0B", "U+2D0C", "U+2D0D", "U+2D0E", "U+2D0F", "U+2D10", "U+2D11", "U+2D12",
            "U+2D13", "U+2D14", "U+2D15", "U+2D16", "U+2D17", "U+2D18", "U+2D19", "U+2D1A",
            "U+2D1B", "U+2D1C", "U+2D1D", "U+2D1E", "U+2D1F", "U+2D20", "U+2D21", "U+2D22",
            "U+2D23", "U+2D24", "U+2D25", "U+2D27", "U+2D2D", "U+AB70", "U+AB71", "U+AB72",
            "U+AB73", "U+AB74", "U+AB75", "U+AB76", "U+AB77", "U+AB78", "U+AB79", "U+AB7A",
            "U+AB7B", "U+AB7C", "U+AB7D", "U+AB7E", "U+AB7F", "ꮀ", "ꮁ", "ꮂ", "ꮃ", "ꮄ", "ꮅ", "ꮆ",
            "ꮇ", "ꮈ", "ꮉ", "ꮊ", "ꮋ", "ꮌ", "ꮍ", "ꮎ", "ꮏ", "ꮐ", "ꮑ", "ꮒ", "ꮓ", "ꮔ", "ꮕ", "ꮖ", "ꮗ",
            "ꮘ", "ꮙ", "ꮚ", "ꮛ", "ꮜ", "ꮝ", "ꮞ", "ꮟ", "ꮠ", "ꮡ", "ꮢ", "ꮣ", "ꮤ", "ꮥ", "ꮦ", "ꮧ", "ꮨ",
            "ꮩ", "ꮪ", "ꮫ", "ꮬ", "ꮭ", "ꮮ", "ꮯ", "ꮰ", "ꮱ", "ꮲ", "ꮳ", "ꮴ", "ꮵ", "ꮶ", "ꮷ", "ꮸ", "ꮹ",
            "ꮺ", "ꮻ", "ꮼ", "ꮽ", "ꮾ", "ꮿ", "ᏸ", "ᏹ", "ᏺ", "ᏻ", "ᏼ", "ᏽ", "ა", "ბ", "გ", "დ", "ე",
            "ვ", "ზ", "თ", "ი", "კ", "ლ", "მ", "ნ", "ო", "პ", "ჟ", "რ", "ს", "ტ", "უ", "ფ", "ქ",
            "ღ", "ყ", "შ", "ჩ", "ც", "ძ", "წ", "ჭ", "ხ", "ჯ", "ჰ", "ჱ", "ჲ", "ჳ", "ჴ", "ჵ", "ჶ",
            "ჷ", "ჸ", "ჹ", "ჺ", "ჽ", "ჾ", "ჿ", "U+1E01", "U+1E03", "U+1E05", "U+1E07", "U+1E09",
            "U+1E0B", "U+1E0D", "U+1E0F", "U+1E11", "U+1E13", "U+1E15", "U+1E17", "U+1E19",
            "U+1E1B", "U+1E1D", "U+1E1F", "U+1E21", "U+1E23", "U+1E25", "U+1E27", "U+1E29",
            "U+1E2B", "U+1E2D", "U+1E2F", "U+1E31", "U+1E33", "U+1E35", "U+1E37", "U+1E39",
            "U+1E3B", "U+1E3D", "U+1E3F", "U+1E41", "U+1E43", "U+1E45", "U+1E47", "U+1E49",
            "U+1E4B", "U+1E4D", "U+1E4F", "U+1E51", "U+1E53", "U+1E55", "U+1E57", "U+1E59",
            "U+1E5B", "U+1E5D", "U+1E5F", "U+1E61", "U+1E63", "U+1E65", "U+1E67", "U+1E69",
            "U+1E6B", "U+1E6D", "U+1E6F", "U+1E71", "U+1E73", "U+1E75", "U+1E77", "U+1E79",
            "U+1E7B", "U+1E7D", "U+1E7F", "ẁ", "ẃ", "ẅ", "ẇ", "ẉ", "ẋ", "ẍ", "ẏ", "ẑ", "ẓ", "ẕ",
            "ß", "ạ", "ả", "ấ", "ầ", "ẩ", "ẫ", "ậ", "ắ", "ằ", "ẳ", "ẵ", "ặ", "ẹ", "ẻ", "ẽ", "ế",
            "ề", "ể", "ễ", "ệ", "ỉ", "ị", "ọ", "ỏ", "ố", "ồ", "ổ", "ỗ", "ộ", "ớ", "ờ", "ở", "ỡ",
            "ợ", "ụ", "ủ", "ứ", "ừ", "ử", "ữ", "ự", "ỳ", "ỵ", "ỷ", "ỹ", "ỻ", "ỽ", "ỿ", "U+1F00",
            "U+1F01", "U+1F02", "U+1F03", "U+1F04", "U+1F05", "U+1F06", "U+1F07", "U+1F10",
            "U+1F11", "U+1F12", "U+1F13", "U+1F14", "U+1F15", "U+1F20", "U+1F21", "U+1F22",
            "U+1F23", "U+1F24", "U+1F25", "U+1F26", "U+1F27", "U+1F30", "U+1F31", "U+1F32",
            "U+1F33", "U+1F34", "U+1F35", "U+1F36", "U+1F37", "U+1F40", "U+1F41", "U+1F42",
            "U+1F43", "U+1F44", "U+1F45", "U+1F51", "U+1F53", "U+1F55", "U+1F57", "U+1F60",
            "U+1F61", "U+1F62", "U+1F63", "U+1F64", "U+1F65", "U+1F66", "U+1F67", "ᾀ", "ᾁ", "ᾂ",
            "ᾃ", "ᾄ", "ᾅ", "ᾆ", "ᾇ", "ᾐ", "ᾑ", "ᾒ", "ᾓ", "ᾔ", "ᾕ", "ᾖ", "ᾗ", "ᾠ", "ᾡ", "ᾢ", "ᾣ",
            "ᾤ", "ᾥ", "ᾦ", "ᾧ", "ᾰ", "ᾱ", "U+1F70", "U+1F71", "ᾳ", "U+1F72", "U+1F73", "U+1F74",
            "U+1F75", "ῃ", "ῐ", "ῑ", "U+1F76", "U+1F77", "ῠ", "ῡ", "U+1F7A", "U+1F7B", "ῥ",
            "U+1F78", "U+1F79", "U+1F7C", "U+1F7D", "ῳ", "ω", "k", "å", "U+214E", "U+2170",
            "U+2171", "U+2172", "U+2173", "U+2174", "U+2175", "U+2176", "U+2177", "U+2178",
            "U+2179", "U+217A", "U+217B", "U+217C", "U+217D", "U+217E", "U+217F", "ↄ", "ⓐ", "ⓑ",
            "ⓒ", "ⓓ", "ⓔ", "ⓕ", "ⓖ", "ⓗ", "ⓘ", "ⓙ", "ⓚ", "ⓛ", "ⓜ", "ⓝ", "ⓞ", "ⓟ", "ⓠ", "ⓡ", "ⓢ",
            "ⓣ", "ⓤ", "ⓥ", "ⓦ", "ⓧ", "ⓨ", "ⓩ", "U+2C30", "U+2C31", "U+2C32", "U+2C33", "U+2C34",
            "U+2C35", "U+2C36", "U+2C37", "U+2C38", "U+2C39", "U+2C3A", "U+2C3B", "U+2C3C",
            "U+2C3D", "U+2C3E", "U+2C3F", "U+2C40", "U+2C41", "U+2C42", "U+2C43", "U+2C44",
            "U+2C45", "U+2C46", "U+2C47", "U+2C48", "U+2C49", "U+2C4A", "U+2C4B", "U+2C4C",
            "U+2C4D", "U+2C4E", "U+2C4F", "U+2C50", "U+2C51", "U+2C52", "U+2C53", "U+2C54",
            "U+2C55", "U+2C56", "U+2C57", "U+2C58", "U+2C59", "U+2C5A", "U+2C5B", "U+2C5C",
            "U+2C5D", "U+2C5E", "U+2C5F", "U+2C61", "U+026B", "U+1D7D", "U+027D", "U+2C68",
            "U+2C6A", "U+2C6C", "U+0251", "U+0271", "U+0250", "U+0252", "U+2C73", "U+2C76",
            "U+023F", "U+0240", "ⲁ", "ⲃ", "ⲅ", "ⲇ", "ⲉ", "ⲋ", "ⲍ", "ⲏ", "ⲑ", "ⲓ", "ⲕ", "ⲗ", "ⲙ",
            "ⲛ", "ⲝ", "ⲟ", "ⲡ", "ⲣ", "ⲥ", "ⲧ", "ⲩ", "ⲫ", "ⲭ", "ⲯ", "ⲱ", "ⲳ", "ⲵ", "ⲷ", "ⲹ", "ⲻ",
            "ⲽ", "ⲿ", "ⳁ", "ⳃ", "ⳅ", "ⳇ", "ⳉ", "ⳋ", "ⳍ", "ⳏ", "ⳑ", "ⳓ", "ⳕ", "ⳗ", "ⳙ", "ⳛ", "ⳝ",
            "ⳟ", "ⳡ", "ⳣ", "ⳬ", "ⳮ", "ⳳ", "U+A641", "U+A643", "U+A645", "U+A647", "U+A649",
            "U+A64B", "U+A64D", "U+A64F", "U+A651", "U+A653", "U+A655", "U+A657", "U+A659",
            "U+A65B", "U+A65D", "U+A65F", "U+A661", "U+A663", "U+A665", "U+A667", "U+A669",
            "U+A66B", "U+A66D", "ꚁ", "ꚃ", "ꚅ", "ꚇ", "ꚉ", "ꚋ", "ꚍ", "ꚏ", "ꚑ", "ꚓ", "ꚕ", "ꚗ", "ꚙ",
            "ꚛ", "U+A723", "U+A725", "U+A727", "U+A729", "U+A72B", "U+A72D", "U+A72F", "U+A733",
            "U+A735", "U+A737", "U+A739", "U+A73B", "U+A73D", "U+A73F", "U+A741", "U+A743",
            "U+A745", "U+A747", "U+A749", "U+A74B", "U+A74D", "U+A74F", "U+A751", "U+A753",
            "U+A755", "U+A757", "U+A759", "U+A75B", "U+A75D", "U+A75F", "U+A761", "U+A763",
            "U+A765", "U+A767", "U+A769", "U+A76B", "U+A76D", "U+A76F", "U+A77A", "U+A77C",
            "U+1D79", "U+A77F", "ꞁ", "ꞃ", "ꞅ", "ꞇ", "ꞌ", "U+0265", "ꞑ", "ꞓ", "ꞗ", "ꞙ", "ꞛ", "ꞝ",
            "ꞟ", "ꞡ", "ꞣ", "ꞥ", "ꞧ", "ꞩ", "U+0266", "U+025C", "U+0261", "U+026C", "U+026A", "ʞ",
            "ʇ", "ʝ", "U+AB53", "ꞵ", "ꞷ", "ꞹ", "ꞻ", "ꞽ", "ꞿ", "ꟁ", "ꟃ", "ꞔ", "ʂ", "ᶎ", "ꟈ", "ꟊ",
            "ꟑ", "ꟗ", "ꟙ", "ꟶ", "U+FF41", "U+FF42", "U+FF43", "U+FF44", "U+FF45", "U+FF46",
            "U+FF47", "U+FF48", "U+FF49", "U+FF4A", "U+FF4B", "U+FF4C", "U+FF4D", "U+FF4E",
            "U+FF4F", "U+FF50", "U+FF51", "U+FF52", "U+FF53", "U+FF54", "U+FF55", "U+FF56",
            "U+FF57", "U+FF58", "U+FF59", "U+FF5A", "U+10428", "U+10429", "U+1042A", "U+1042B",
            "U+1042C", "U+1042D", "U+1042E", "U+1042F", "U+10430", "U+10431", "U+10432",
            "U+10433", "U+10434", "U+10435", "U+10436", "U+10437", "U+10438", "U+10439",
            "U+1043A", "U+1043B", "U+1043C", "U+1043D", "U+1043E", "U+1043F", "U+10440",
            "U+10441", "U+10442", "U+10443", "U+10444", "U+10445", "U+10446", "U+10447",
            "U+10448", "U+10449", "U+1044A", "U+1044B", "U+1044C", "U+1044D", "U+1044E",
            "U+1044F", "U+104D8", "U+104D9", "U+104DA", "U+104DB", "U+104DC", "U+104DD",
            "U+104DE", "U+104DF", "U+104E0", "U+104E1", "U+104E2", "U+104E3", "U+104E4",
            "U+104E5", "U+104E6", "U+104E7", "U+104E8", "U+104E9", "U+104EA", "U+104EB",
            "U+104EC", "U+104ED", "U+104EE", "U+104EF", "U+104F0", "U+104F1", "U+104F2",
            "U+104F3", "U+104F4", "U+104F5", "U+104F6", "U+104F7", "U+104F8", "U+104F9",
            "U+104FA", "U+104FB", "U+10597", "U+10598", "U+10599", "U+1059A", "U+1059B",
            "U+1059C", "U+1059D", "U+1059E", "U+1059F", "U+105A0", "U+105A1", "U+105A3",
            "U+105A4", "U+105A5", "U+105A6", "U+105A7", "U+105A8", "U+105A9", "U+105AA",
            "U+105AB", "U+105AC", "U+105AD", "U+105AE", "U+105AF", "U+105B0", "U+105B1",
            "U+105B3", "U+105B4", "U+105B5", "U+105B6", "U+105B7", "U+105B8", "U+105B9",
            "U+105BB", "U+105BC", "U+10CC0", "U+10CC1", "U+10CC2", "U+10CC3", "U+10CC4",
            "U+10CC5", "U+10CC6", "U+10CC7", "U+10CC8", "U+10CC9", "U+10CCA", "U+10CCB",
            "U+10CCC", "U+10CCD", "U+10CCE", "U+10CCF", "U+10CD0", "U+10CD1", "U+10CD2",
            "U+10CD3", "U+10CD4", "U+10CD5", "U+10CD6", "U+10CD7", "U+10CD8", "U+10CD9",
            "U+10CDA", "U+10CDB", "U+10CDC", "U+10CDD", "U+10CDE", "U+10CDF", "U+10CE0",
            "U+10CE1", "U+10CE2", "U+10CE3", "U+10CE4", "U+10CE5", "U+10CE6", "U+10CE7",
            "U+10CE8", "U+10CE9", "U+10CEA", "U+10CEB", "U+10CEC", "U+10CED", "U+10CEE",
            "U+10CEF", "U+10CF0", "U+10CF1", "U+10CF2", "U+118C0", "U+118C1", "U+118C2",
            "U+118C3", "U+118C4", "U+118C5", "U+118C6", "U+118C7", "U+118C8", "U+118C9",
            "U+118CA", "U+118CB", "U+118CC", "U+118CD", "U+118CE", "U+118CF", "U+118D0",
            "U+118D1", "U+118D2", "U+118D3", "U+118D4", "U+118D5", "U+118D6", "U+118D7",
            "U+118D8", "U+118D9", "U+118DA", "U+118DB", "U+118DC", "U+118DD", "U+118DE",
            "U+118DF", "U+16E60", "U+16E61", "U+16E62", "U+16E63", "U+16E64", "U+16E65",
            "U+16E66", "U+16E67", "U+16E68", "U+16E69", "U+16E6A", "U+16E6B", "U+16E6C",
            "U+16E6D", "U+16E6E", "U+16E6F", "U+16E70", "U+16E71", "U+16E72", "U+16E73",
            "U+16E74", "U+16E75", "U+16E76", "U+16E77", "U+16E78", "U+16E79", "U+16E7A",
            "U+16E7B", "U+16E7C", "U+16E7D", "U+16E7E", "U+16E7F", "U+1E922", "U+1E923",
            "U+1E924", "U+1E925", "U+1E926", "U+1E927", "U+1E928", "U+1E929", "U+1E92A",
            "U+1E92B", "U+1E92C", "U+1E92D", "U+1E92E", "U+1E92F", "U+1E930", "U+1E931",
            "U+1E932", "U+1E933", "U+1E934", "U+1E935", "U+1E936", "U+1E937", "U+1E938",
            "U+1E939", "U+1E93A", "U+1E93B", "U+1E93C", "U+1E93D", "U+1E93E", "U+1E93F",
            "U+1E940", "U+1E941", "U+1E942", "U+1E943">>
    IN  [c \in Range(upper) |-> small[CHOOSE i \in 1..Len(upper) : upper[i] = c]]

\* the characters str.lower skips when it looks for a letter around a
\* capital sigma (Case_Ignorable)
CaseIgnorable ==
    {"'", ".", ":", "^", "U+0060", "¨", "­", "¯", "´", "·", "¸", "ʰ", "ʱ", "ʲ", "ʳ", "ʴ", "ʵ",
     "ʶ", "ʷ", "ʸ", "ʹ", "ʺ", "ʻ", "ʼ", "ʽ", "ʾ", "ʿ", "ˀ", "ˁ", "˂", "˃", "˄", "˅", "ˆ", "ˇ",
     "ˈ", "ˉ", "ˊ", "ˋ", "ˌ", "ˍ", "ˎ", "ˏ", "ː", "ˑ", "˒", "˓", "˔", "˕", "˖", "˗", "˘", "˙",
     "˚", "˛", "˜", "˝", "˞", "˟", "ˠ", "ˡ", "ˢ", "ˣ", "ˤ", "˥", "˦", "˧", "˨", "˩", "˪", "˫",
     "ˬ", "˭", "ˮ", "˯", "˰", "˱", "˲", "˳", "˴", "˵", "˶", "˷", "˸", "˹", "˺", "˻", "˼", "˽",
     "˾", "˿", "U+0300", "U+0301", "U+0302", "U+0303", "U+0304", "U+0305", "U+0306", "U+0307",
     "U+0308", "U+0309", "U+030A", "U+030B", "U+030C", "U+030D", "U+030E", "U+030F", "U+0310",
     "U+0311", "U+0312", "U+0313", "U+0314", "U+0315", "U+0316", "U+0317", "U+0318", "U+0319",
     "U+031A", "U+031B", "U+031C", "U+031D", "U+031E", "U+031F", "U+0320", "U+0321", "U+0322",
     "U+0323", "U+0324", "U+0325", "U+0326", "U+0327", "U+0328", "U+0329", "U+032A", "U+032B",
     "U+032C", "U+032D", "U+032E", "U+032F", "U+0330", "U+0331", "U+0332", "U+0333", "U+0334",
     "U+0335", "U+0336", "U+0337", "U+0338", "U+0339", "U+033A", "U+033B", "U+033C", "U+033D",
     "U+033E", "U+033F", "U+0340", "U+0341", "U+0342", "U+0343", "U+0344", "U+0345", "U+0346",
     "U+0347", "U+0348", "U+0349", "U+034A", "U+034B", "U+034C", "U+034D", "U+034E", "U+034F",
     "U+0350", "U+0351", "U+0352", "U+0353", "U+0354", "U+0355", "U+0356", "U+0357", "U+0358",
     "U+0359", "U+035A", "U+035B", "U+035C", "U+035D", "U+035E", "U+035F", "U+0360", "U+0361",
     "U+0362", "U+0363", "U+0364", "U+0365", "U+0366", "U+0367", "U+0368", "U+0369", "U+036A",
     "U+036B", "U+036C", "U+036D", "U+036E", "U+036F", "U+0374", "U+0375", "U+037A", "΄", "΅",
     "·", "҃", "҄", "҅", "҆", "҇", "҈", "҉", "U+0559", "U+055F", "֑", "֒", "֓", "֔", "֕", "֖",
     "֗", "֘", "֙", "֚", "֛", "֜", "֝", "֞", "֟", "֠", "֡", "֢", "֣", "֤", "֥", "֦", "֧", "֨",
     "֩", "֪", "֫", "֬", "֭", "֮", "֯", "ְ", "ֱ", "ֲ", "ֳ", "ִ", "ֵ", "ֶ", "ַ", "ָ", "ֹ", "ֺ",
     "ֻ", "ּ", "ֽ", "ֿ", "ׁ", "ׂ", "ׄ", "ׅ", "ׇ", "״", "U+0600", "U+0601", "U+0602", "U+0603",
     "U+0604", "U+0605", "U+0610", "U+0611", "U+0612", "U+0613", "U+0614", "U+0615", "U+0616",
     "U+0617", "U+0618", "U+0619", "U+061A", "U+061C", "U+0640", "U+064B", "U+064C", "U+064D",
     "U+064E", "U+064F", "U+0650", "U+0651", "U+0652", "U+0653", "U+0654", "U+0655", "U+0656",
     "U+0657", "U+0658", "U+0659", "U+065A", "U+065B", "U+065C", "U+065D", "U+065E", "U+065F",
     "U+0670", "ۖ", "ۗ", "ۘ", "ۙ", "ۚ", "ۛ", "ۜ", "۝", "۟", "۠", "ۡ", "ۢ", "ۣ", "ۤ", "ۥ", "ۦ",
     "ۧ", "ۨ", "۪", "۫", "۬", "ۭ", "U+070F", "U+0711", "U+0730", "U+0731", "U+0732", "U+0733",
     "U+0734", "U+0735", "U+0736", "U+0737", "U+0738", "U+0739", "U+073A", "U+073B", "U+073C",
     "U+073D", "U+073E", "U+073F", "U+0740", "U+0741", "U+0742", "U+0743", "U+0744", "U+0745",
     "U+0746", "U+0747", "U+0748", "U+0749", "U+074A", "ަ", "ާ", "ި", "ީ", "ު", "ޫ", "ެ", "ޭ",
     "ޮ", "ޯ", "ް", "߫", "߬", "߭", "߮", "߯", "߰", "߱", "߲", "߳", "ߴ", "ߵ", "ߺ", "߽", "U+0816",
     "U+0817", "U+0818", "U+0819", "U+081A", "U+081B", "U+081C", "U+081D", "U+081E", "U+081F",
     "U+0820", "U+0821", "U+0822", "U+0823", "U+0824", "U+0825", "U+0826", "U+0827", "U+0828",
     "U+0829", "U+082A", "U+082B", "U+082C", "U+082D", "U+0859", "U+085A", "U+085B", "࢈", "࢐",
     "࢑", "࢘", "࢙", "࢚", "࢛", "࢜", "࢝", "࢞", "࢟", "ࣉ", "࣊", "࣋", "࣌", "࣍", "࣎", "࣏", "࣐", "࣑",
     "࣒", "࣓", "ࣔ", "ࣕ", "ࣖ", "ࣗ", "ࣘ", "ࣙ", "ࣚ", "ࣛ", "ࣜ", "ࣝ", "ࣞ", "ࣟ", "࣠", "࣡", "࣢", "ࣣ",
     "ࣤ", "ࣥ", "ࣦ", "ࣧ", "ࣨ", "ࣩ", "࣪", "࣫", "࣬", "࣭", "࣮", "࣯", "ࣰ", "ࣱ", "ࣲ", "ࣳ", "ࣴ", "ࣵ",
     "ࣶ", "ࣷ", "ࣸ", "ࣹ", "ࣺ", "ࣻ", "ࣼ", "ࣽ", "ࣾ", "ࣿ", "U+0900", "U+0901", "U+0902", "U+093A",
     "U+093C", "U+0941", "U+0942", "U+0943", "U+0944", "U+0945", "U+0946", "U+0947", "U+0948",
     "U+094D", "U+0951", "U+0952", "U+0953", "U+0954", "U+0955", "U+0956", "U+0957", "U+0962",
     "U+0963", "U+0971", "ঁ", "়", "ু", "ূ", "ৃ", "ৄ", "্", "ৢ", "ৣ", "৾", "U+0A01", "U+0A02",
     "U+0A3C", "U+0A41", "U+0A42", "U+0A47", "U+0A48", "U+0A4B", "U+0A4C", "U+0A4D", "U+0A51",
     "U+0A70", "U+0A71", "U+0A75", "ઁ", "ં", "઼", "ુ", "ૂ", "ૃ", "ૄ", "ૅ", "ે", "ૈ", "્", "ૢ",
     "ૣ", "ૺ", "ૻ", "ૼ", "૽", "૾", "૿", "U+0B01", "U+0B3C", "U+0B3F", "U+0B41", "U+0B42",
     "U+0B43", "U+0B44", "U+0B4D", "U+0B55", "U+0B56", "U+0B62", "U+0B63", "ஂ", "ீ", "்",
     "U+0C00", "U+0C04", "U+0C3C", "U+0C3E", "U+0C3F", "U+0C40", "U+0C46", "U+0C47", "U+0C48",
     "U+0C4A", "U+0C4B", "U+0C4C", "U+0C4D", "U+0C55", "U+0C56", "U+0C62", "U+0C63", "ಁ", "಼",
     "ಿ", "ೆ", "ೌ", "್", "ೢ", "ೣ", "U+0D00", "U+0D01", "U+0D3B", "U+0D3C", "U+0D41", "U+0D42",
     "U+0D43", "U+0D44", "U+0D4D", "U+0D62", "U+0D63", "ඁ", "්", "ි", "ී", "ු", "ූ", "U+0E31",
     "U+0E34", "U+0E35", "U+0E36", "U+0E37", "U+0E38", "U+0E39", "U+0E3A", "U+0E46", "U+0E47",
     "U+0E48", "U+0E49", "U+0E4A", "U+0E4B", "U+0E4C", "U+0E4D", "U+0E4E", "ັ", "ິ", "ີ", "ຶ",
     "ື", "ຸ", "ູ", "຺", "ົ", "ຼ", "ໆ", "່", "້", "໊", "໋", "໌", "ໍ", "U+0F18", "U+0F19",
     "U+0F35", "U+0F37", "U+0F39", "U+0F71", "U+0F72", "U+0F73", "U+0F74", "U+0F75", "U+0F76",
     "U+0F77", "U+0F78", "U+0F79", "U+0F7A", "U+0F7B", "U+0F7C", "U+0F7D", "U+0F7E", "ྀ", "ཱྀ",
     "ྂ", "ྃ", "྄", "྆", "྇", "ྍ", "ྎ", "ྏ", "ྐ", "ྑ", "ྒ", "ྒྷ", "ྔ", "ྕ", "ྖ", "ྗ", "ྙ", "ྚ",
     "ྛ", "ྜ", "ྜྷ", "ྞ", "ྟ", "ྠ", "ྡ", "ྡྷ", "ྣ", "ྤ", "ྥ", "ྦ", "ྦྷ", "ྨ", "ྩ", "ྪ", "ྫ", "ྫྷ",
     "ྭ", "ྮ", "ྯ", "ྰ", "ྱ", "ྲ", "ླ", "ྴ", "ྵ", "ྶ", "ྷ", "ྸ", "ྐྵ", "ྺ", "ྻ", "ྼ", "࿆",
     "U+102D", "U+102E", "U+102F", "U+1030", "U+1032", "U+1033", "U+1034", "U+1035", "U+1036",
     "U+1037", "U+1039", "U+103A", "U+103D", "U+103E", "U+1058", "U+1059", "U+105E", "U+105F",
     "U+1060", "U+1071", "U+1072", "U+1073", "U+1074", "ႂ", "ႅ", "ႆ", "ႍ", "ႝ", "ჼ", "U+135D",
     "U+135E", "U+135F", "U+1712", "U+1713", "U+1714", "U+1732", "U+1733", "U+1752", "U+1753",
     "U+1772", "U+1773", "឴", "឵", "ិ", "ី", "ឹ", "ឺ", "ុ", "ូ", "ួ", "ំ", "៉", "៊", "់", "៌",
     "៍", "៎", "៏", "័", "៑", "្", "៓", "ៗ", "៝", "U+180B", "U+180C", "U+180D", "U+180E",
     "U+180F", "U+1843", "ᢅ", "ᢆ", "ᢩ", "U+1920", "U+1921", "U+1922", "U+1927", "U+1928",
     "U+1932", "U+1939", "U+193A", "U+193B", "U+1A17", "U+1A18", "U+1A1B", "U+1A56", "U+1A58",
     "U+1A59", "U+1A5A", "U+1A5B", "U+1A5C", "U+1A5D", "U+1A5E", "U+1A60", "U+1A62", "U+1A65",
     "U+1A66", "U+1A67", "U+1A68", "U+1A69", "U+1A6A", "U+1A6B", "U+1A6C", "U+1A73", "U+1A74",
     "U+1A75", "U+1A76", "U+1A77", "U+1A78", "U+1A79", "U+1A7A", "U+1A7B", "U+1A7C", "U+1A7F",
     "ᪧ", "᪰", "᪱", "᪲", "᪳", "᪴", "᪵", "᪶", "᪷", "᪸", "᪹", "᪺", "᪻", "᪼", "᪽", "᪾", "ᪿ", "ᫀ",
     "᫁", "᫂", "᫃", "᫄", "᫅", "᫆", "᫇", "᫈", "᫉", "᫊", "᫋", "ᫌ", "ᫍ", "ᫎ", "U+1B00", "U+1B01",
     "U+1B02", "U+1B03", "U+1B34", "U+1B36", "U+1B37", "U+1B38", "U+1B39", "U+1B3A", "U+1B3C",
     "U+1B42", "U+1B6B", "U+1B6C", "U+1B6D", "U+1B6E", "U+1B6F", "U+1B70", "U+1B71", "U+1B72",
     "U+1B73", "ᮀ", "ᮁ", "ᮢ", "ᮣ", "ᮤ", "ᮥ", "ᮨ", "ᮩ", "᮫", "ᮬ", "ᮭ", "᯦", "ᯨ", "ᯩ", "ᯭ", "ᯯ",
     "ᯰ", "ᯱ", "U+1C2C", "U+1C2D", "U+1C2E", "U+1C2F", "U+1C30", "U+1C31", "U+1C32", "U+1C33",
     "U+1C36", "U+1C37", "U+1C78", "U+1C79", "U+1C7A", "U+1C7B", "U+1C7C", "U+1C7D", "᳐", "᳑",
     "᳒", "᳔", "᳕", "᳖", "᳗", "᳘", "᳙", "᳚", "᳛", "᳜", "᳝", "᳞", "᳟", "᳠", "᳢", "᳣", "᳤", "᳥",
     "᳦", "᳧", "᳨", "᳭", "᳴", "᳸", "᳹", "U+1D2C", "U+1D2D", "U+1D2E", "U+1D2F", "U+1D30",
     "U+1D31", "U+1D32", "U+1D33", "U+1D34", "U+1D35", "U+1D36", "U+1D37", "U+1D38", "U+1D39",
     "U+1D3A", "U+1D3B", "U+1D3C", "U+1D3D", "U+1D3E", "U+1D3F", "U+1D40", "U+1D41", "U+1D42",
     "U+1D43", "U+1D44", "U+1D45", "U+1D46", "U+1D47", "U+1D48", "U+1D49", "U+1D4A", "U+1D4B",
     "U+1D4C", "U+1D4D", "U+1D4E", "U+1D4F", "U+1D50", "U+1D51", "U+1D52", "U+1D53", "U+1D54",
     "U+1D55", "U+1D56", "U+1D57", "U+1D58", "U+1D59", "U+1D5A", "U+1D5B", "U+1D5C", "U+1D5D",
     "U+1D5E", "U+1D5F", "U+1D60", "U+1D61", "U+1D62", "U+1D63", "U+1D64", "U+1D65", "U+1D66",
     "U+1D67", "U+1D68", "U+1D69", "U+1D6A", "U+1D78", "ᶛ", "ᶜ", "ᶝ", "ᶞ", "ᶟ", "ᶠ", "ᶡ", "ᶢ",
     "ᶣ", "ᶤ", "ᶥ", "ᶦ", "ᶧ", "ᶨ", "ᶩ", "ᶪ", "ᶫ", "ᶬ", "ᶭ", "ᶮ", "ᶯ", "ᶰ", "ᶱ", "ᶲ", "ᶳ", "ᶴ",
     "ᶵ", "ᶶ", "ᶷ", "ᶸ", "ᶹ", "ᶺ", "ᶻ", "ᶼ", "ᶽ", "ᶾ", "ᶿ", "᷀", "᷁", "᷂", "᷃", "᷄", "᷅", "᷆",
     "᷇", "᷈", "᷉", "᷊", "᷋", "᷌", "᷍", "᷎", "᷏", "᷐", "᷑", "᷒", "ᷓ", "ᷔ", "ᷕ", "ᷖ", "ᷗ", "ᷘ",
     "ᷙ", "ᷚ", "ᷛ", "ᷜ", "ᷝ", "ᷞ", "ᷟ", "ᷠ", "ᷡ", "ᷢ", "ᷣ", "ᷤ", "ᷥ", "ᷦ", "ᷧ", "ᷨ", "ᷩ", "ᷪ",
     "ᷫ", "ᷬ", "ᷭ", "ᷮ", "ᷯ", "ᷰ", "ᷱ", "ᷲ", "ᷳ", "ᷴ", "᷵", "᷶", "᷷", "᷸", "᷹", "᷺", "᷻", "᷼",
     "᷽", "᷾", "᷿", "᾽", "᾿", "῀", "῁", "῍", "῎", "῏", "῝", "῞", "῟", "῭", "΅", "`", "´", "῾",
     "U+200B", "U+200C", "U+200D", "U+200E", "U+200F", "U+2018", "U+2019", "U+2024", "U+2027",
     "U+202A", "U+202B", "U+202C", "U+202D", "U+202E", "U+2060", "U+2061", "U+2062", "U+2063",
     "U+2064", "U+2066", "U+2067", "U+2068", "U+2069", "U+206A", "U+206B", "U+206C", "U+206D",
     "U+206E", "U+206F", "U+2071", "U+207F", "ₐ", "ₑ", "ₒ", "ₓ", "ₔ", "ₕ", "ₖ", "ₗ", "ₘ", "ₙ",
     "ₚ", "ₛ", "ₜ", "⃐", "⃑", "⃒", "⃓", "⃔", "⃕", "⃖", "⃗", "⃘", "⃙", "⃚", "⃛", "⃜", "⃝", "⃞",
     "⃟", "⃠", "⃡", "⃢", "⃣", "⃤", "⃥", "⃦", "⃧", "⃨", "⃩", "⃪", "⃫", "⃬", "⃭", "⃮", "⃯", "⃰",
     "U+2C7C", "U+2C7D", "⳯", "⳰", "⳱", "U+2D6F", "U+2D7F", "ⷠ", "ⷡ", "ⷢ", "ⷣ", "ⷤ", "ⷥ", "ⷦ",
     "ⷧ", "ⷨ", "ⷩ", "ⷪ", "ⷫ", "ⷬ", "ⷭ", "ⷮ", "ⷯ", "ⷰ", "ⷱ", "ⷲ", "ⷳ", "ⷴ", "ⷵ", "ⷶ", "ⷷ", "ⷸ",
     "ⷹ", "ⷺ", "ⷻ", "ⷼ", "ⷽ", "ⷾ", "ⷿ", "U+2E2F", "U+3005", "U+302A", "U+302B", "U+302C",
     "U+302D", "U+3031", "U+3032", "U+3033", "U+3034", "U+3035", "U+303B", "゙", "゚", "゛", "゜",
     "ゝ", "ゞ", "ー", "ヽ", "ヾ", "U+A015", "ꓸ", "ꓹ", "ꓺ", "ꓻ", "ꓼ", "ꓽ", "U+A60C", "U+A66F",
     "U+A670", "U+A671", "U+A672", "U+A674", "U+A675", "U+A676", "U+A677", "U+A678", "U+A679",
     "U+A67A", "U+A67B", "U+A67C", "U+A67D", "U+A67F", "ꚜ", "ꚝ", "ꚞ", "ꚟ", "꛰", "꛱", "U+A700",
     "U+A701", "U+A702", "U+A703", "U+A704", "U+A705", "U+A706", "U+A707", "U+A708", "U+A709",
     "U+A70A", "U+A70B", "U+A70C", "U+A70D", "U+A70E", "U+A70F", "U+A710", "U+A711", "U+A712",
     "U+A713", "U+A714", "U+A715", "U+A716", "U+A717", "U+A718", "U+A719", "U+A71A", "U+A71B",
     "U+A71C", "U+A71D", "U+A71E", "U+A71F", "U+A720", "U+A721", "U+A770", "ꞈ", "꞉", "꞊", "ꟲ",
     "ꟳ", "ꟴ", "ꟸ", "ꟹ", "U+A802", "U+A806", "U+A80B", "U+A825", "U+A826", "U+A82C", "꣄", "ꣅ",
     "꣠", "꣡", "꣢", "꣣", "꣤", "꣥", "꣦", "꣧", "꣨", "꣩", "꣪", "꣫", "꣬", "꣭", "꣮", "꣯", "꣰", "꣱",
     "ꣿ", "U+A926", "U+A927", "U+A928", "U+A929", "U+A92A", "U+A92B", "U+A92C", "U+A92D",
     "U+A947", "U+A948", "U+A949", "U+A94A", "U+A94B", "U+A94C", "U+A94D", "U+A94E", "U+A94F",
     "U+A950", "U+A951", "ꦀ", "ꦁ", "ꦂ", "꦳", "ꦶ", "ꦷ", "ꦸ", "ꦹ", "ꦼ", "ꦽ", "ꧏ", "ꧥ", "ꧦ",
     "U+AA29", "U+AA2A", "U+AA2B", "U+AA2C", "U+AA2D", "U+AA2E", "U+AA31", "U+AA32", "U+AA35",
     "U+AA36", "U+AA43", "U+AA4C", "U+AA70", "U+AA7C", "ꪰ", "ꪲ", "ꪳ", "ꪴ", "ꪷ", "ꪸ", "ꪾ", "꪿",
     "꫁", "ꫝ", "ꫬ", "ꫭ", "ꫳ", "ꫴ", "꫶", "U+AB5B", "U+AB5C", "U+AB5D", "U+AB5E", "U+AB5F",
     "U+AB69", "U+AB6A", "U+AB6B", "ꯥ", "ꯨ", "꯭", "U+FB1E", "﮲", "﮳", "﮴", "﮵", "﮶", "﮷", "﮸",
     "﮹", "﮺", "﮻", "﮼", "﮽", "﮾", "﮿", "﯀", "﯁", "﯂", "U+FE00", "U+FE01", "U+FE02", "U+FE03",
     "U+FE04", "U+FE05", "U+FE06", "U+FE07", "U+FE08", "U+FE09", "U+FE0A", "U+FE0B", "U+FE0C",
     "U+FE0D", "U+FE0E", "U+FE0F", "U+FE13", "U+FE20", "U+FE21", "U+FE22", "U+FE23", "U+FE24",
     "U+FE25", "U+FE26", "U+FE27", "U+FE28", "U+FE29", "U+FE2A", "U+FE2B", "U+FE2C", "U+FE2D",
     "U+FE2E", "U+FE2F", "U+FE52", "U+FE55", "﻿", "U+FF07", "U+FF0E", "U+FF1A", "U+FF3E",
     "U+FF40", "U+FF70", "ﾞ", "ﾟ", "￣", "￹", "￺", "￻", "U+101FD", "U+102E0", "U+10376",
     "U+10377", "U+10378", "U+10379", "U+1037A", "U+10780", "U+10781", "U+10782", "U+10783",
     "U+10784", "U+10785", "U+10787", "U+10788", "U+10789", "U+1078A", "U+1078B", "U+1078C",
     "U+1078D", "U+1078E", "U+1078F", "U+10790", "U+10791", "U+10792", "U+10793", "U+10794",
     "U+10795", "U+10796", "U+10797", "U+10798", "U+10799", "U+1079A", "U+1079B", "U+1079C",
     "U+1079D", "U+1079E", "U+1079F", "U+107A0", "U+107A1", "U+107A2", "U+107A3", "U+107A4",
     "U+107A5", "U+107A6", "U+107A7", "U+107A8", "U+107A9", "U+107AA", "U+107AB", "U+107AC",
     "U+107AD", "U+107AE", "U+107AF", "U+107B0", "U+107B2", "U+107B3", "U+107B4", "U+107B5",
     "U+107B6", "U+107B7", "U+107B8", "U+107B9", "U+107BA", "U+10A01", "U+10A02", "U+10A03",
     "U+10A05", "U+10A06", "U+10A0C", "U+10A0D", "U+10A0E", "U+10A0F", "U+10A38", "U+10A39",
     "U+10A3A", "U+10A3F", "U+10AE5", "U+10AE6", "U+10D24", "U+10D25", "U+10D26", "U+10D27",
     "U+10EAB", "U+10EAC", "U+10F46", "U+10F47", "U+10F48", "U+10F49", "U+10F4A", "U+10F4B",
     "U+10F4C", "U+10F4D", "U+10F4E", "U+10F4F", "U+10F50", "U+10F82", "U+10F83", "U+10F84",
     "U+10F85", "U+11001", "U+11038", "U+11039", "U+1103A", "U+1103B", "U+1103C", "U+1103D",
     "U+1103E", "U+1103F", "U+11040", "U+11041", "U+11042", "U+11043", "U+11044", "U+11045",
     "U+11046", "U+11070", "U+11073", "U+11074", "U+1107F", "U+11080", "U+11081", "U+110B3",
     "U+110B4", "U+110B5", "U+110B6", "U+110B9", "U+110BA", "U+110BD", "U+110C2", "U+110CD",
     "U+11100", "U+11101", "U+11102", "U+11127", "U+11128", "U+11129", "U+1112A", "U+1112B",
     "U+1112D", "U+1112E", "U+1112F", "U+11130", "U+11131", "U+11132", "U+11133", "U+11134",
     "U+11173", "U+11180", "U+11181", "U+111B6", "U+111B7", "U+111B8", "U+111B9", "U+111BA",
     "U+111BB", "U+111BC", "U+111BD", "U+111BE", "U+111C9", "U+111CA", "U+111CB", "U+111CC",
     "U+111CF", "U+1122F", "U+11230", "U+11231", "U+11234", "U+11236", "U+11237", "U+1123E",
     "U+112DF", "U+112E3", "U+112E4", "U+112E5", "U+112E6", "U+112E7", "U+112E8", "U+112E9",
     "U+112EA", "U+11300", "U+11301", "U+1133B", "U+1133C", "U+11340", "U+11366", "U+11367",
     "U+11368", "U+11369", "U+1136A", "U+1136B", "U+1136C", "U+11370", "U+11371", "U+11372",
     "U+11373", "U+11374", "U+11438", "U+11439", "U+1143A", "U+1143B", "U+1143C", "U+1143D",
     "U+1143E", "U+1143F", "U+11442", "U+11443", "U+11444", "U+11446", "U+1145E", "U+114B3",
     "U+114B4", "U+114B5", "U+114B6", "U+114B7", "U+114B8", "U+114BA", "U+114BF", "U+114C0",
     "U+114C2", "U+114C3", "U+115B2", "U+115B3", "U+115B4", "U+115B5", "U+115BC", "U+115BD",
     "U+115BF", "U+115C0", "U+115DC", "U+115DD", "U+11633", "U+11634", "U+11635", "U+11636",
     "U+11637", "U+11638", "U+11639", "U+1163A", "U+1163D", "U+1163F", "U+11640", "U+116AB",
     "U+116AD", "U+116B0", "U+116B1", "U+116B2", "U+116B3", "U+116B4", "U+116B5", "U+116B7",
     "U+1171D", "U+1171E", "U+1171F", "U+11722", "U+11723", "U+11724", "U+11725", "U+11727",
     "U+11728", "U+11729", "U+1172A", "U+1172B", "U+1182F", "U+11830", "U+11831", "U+11832",
     "U+11833", "U+11834", "U+11835", "U+11836", "U+11837", "U+11839", "U+1183A", "U+1193B",
     "U+1193C", "U+1193E", "U+11943", "U+119D4", "U+119D5", "U+119D6", "U+119D7", "U+119DA",
     "U+119DB", "U+119E0", "U+11A01", "U+11A02", "U+11A03", "U+11A04", "U+11A05", "U+11A06",
     "U+11A07", "U+11A08", "U+11A09", "U+11A0A", "U+11A33", "U+11A34", "U+11A35", "U+11A36",
     "U+11A37", "U+11A38", "U+11A3B", "U+11A3C", "U+11A3D", "U+11A3E", "U+11A47", "U+11A51",
     "U+11A52", "U+11A53", "U+11A54", "U+11A55", "U+11A56", "U+11A59", "U+11A5A", "U+11A5B",
     "U+11A8A", "U+11A8B", "U+11A8C", "U+11A8D", "U+11A8E", "U+11A8F", "U+11A90", "U+11A91",
     "U+11A92", "U+11A93", "U+11A94", "U+11A95", "U+11A96", "U+11A98", "U+11A99", "U+11C30",
     "U+11C31", "U+11C32", "U+11C33", "U+11C34", "U+11C35", "U+11C36", "U+11C38", "U+11C39",
     "U+11C3A", "U+11C3B", "U+11C3C", "U+11C3D", "U+11C3F", "U+11C92", "U+11C93", "U+11C94",
     "U+11C95", "U+11C96", "U+11C97", "U+11C98", "U+11C99", "U+11C9A", "U+11C9B", "U+11C9C",
     "U+11C9D", "U+11C9E", "U+11C9F", "U+11CA0", "U+11CA1", "U+11CA2", "U+11CA3", "U+11CA4",
     "U+11CA5", "U+11CA6", "U+11CA7", "U+11CAA", "U+11CAB", "U+11CAC", "U+11CAD", "U+11CAE",
     "U+11CAF", "U+11CB0", "U+11CB2", "U+11CB3", "U+11CB5", "U+11CB6", "U+11D31", "U+11D32",
     "U+11D33", "U+11D34", "U+11D35", "U+11D36", "U+11D3A", "U+11D3C", "U+11D3D", "U+11D3F",
     "U+11D40", "U+11D41", "U+11D42", "U+11D43", "U+11D44", "U+11D45", "U+11D47", "U+11D90",
     "U+11D91", "U+11D95", "U+11D97", "U+11EF3", "U+11EF4", "U+13430", "U+13431", "U+13432",
     "U+13433", "U+13434", "U+13435", "U+13436", "U+13437", "U+13438", "U+16AF0", "U+16AF1",
     "U+16AF2", "U+16AF3", "U+16AF4", "U+16B30", "U+16B31", "U+16B32", "U+16B33", "U+16B34",
     "U+16B35", "U+16B36", "U+16B40", "U+16B41", "U+16B42", "U+16B43", "U+16F4F", "U+16F8F",
     "U+16F90", "U+16F91", "U+16F92", "U+16F93", "U+16F94", "U+16F95", "U+16F96", "U+16F97",
     "U+16F98", "U+16F99", "U+16F9A", "U+16F9B", "U+16F9C", "U+16F9D", "U+16F9E", "U+16F9F",
     "U+16FE0", "U+16FE1", "U+16FE3", "U+16FE4", "U+1AFF0", "U+1AFF1", "U+1AFF2", "U+1AFF3",
     "U+1AFF5", "U+1AFF6", "U+1AFF7", "U+1AFF8", "U+1AFF9", "U+1AFFA", "U+1AFFB", "U+1AFFD",
     "U+1AFFE", "U+1BC9D", "U+1BC9E", "U+1BCA0", "U+1BCA1", "U+1BCA2", "U+1BCA3", "U+1CF00",
     "U+1CF01", "U+1CF02", "U+1CF03", "U+1CF04", "U+1CF05", "U+1CF06", "U+1CF07", "U+1CF08",
     "U+1CF09", "U+1CF0A", "U+1CF0B", "U+1CF0C", "U+1CF0D", "U+1CF0E", "U+1CF0F", "U+1CF10",
     "U+1CF11", "U+1CF12", "U+1CF13", "U+1CF14", "U+1CF15", "U+1CF16", "U+1CF17", "U+1CF18",
     "U+1CF19", "U+1CF1A", "U+1CF1B", "U+1CF1C", "U+1CF1D", "U+1CF1E", "U+1CF1F", "U+1CF20",
     "U+1CF21", "U+1CF22", "U+1CF23", "U+1CF24", "U+1CF25", "U+1CF26", "U+1CF27", "U+1CF28",
     "U+1CF29", "U+1CF2A", "U+1CF2B", "U+1CF2C", "U+1CF2D", "U+1CF30", "U+1CF31", "U+1CF32",
     "U+1CF33", "U+1CF34", "U+1CF35", "U+1CF36", "U+1CF37", "U+1CF38", "U+1CF39", "U+1CF3A",
     "U+1CF3B", "U+1CF3C", "U+1CF3D", "U+1CF3E", "U+1CF3F", "U+1CF40", "U+1CF41", "U+1CF42",
     "U+1CF43", "U+1CF44", "U+1CF45", "U+1CF46", "U+1D167", "U+1D168", "U+1D169", "U+1D173",
     "U+1D174", "U+1D175", "U+1D176", "U+1D177", "U+1D178", "U+1D179", "U+1D17A", "U+1D17B",
     "U+1D17C", "U+1D17D", "U+1D17E", "U+1D17F", "U+1D180", "U+1D181", "U+1D182", "U+1D185",
     "U+1D186", "U+1D187", "U+1D188", "U+1D189", "U+1D18A", "U+1D18B", "U+1D1AA", "U+1D1AB",
     "U+1D1AC", "U+1D1AD", "U+1D242", "U+1D243", "U+1D244", "U+1DA00", "U+1DA01", "U+1DA02",
     "U+1DA03", "U+1DA04", "U+1DA05", "U+1DA06", "U+1DA07", "U+1DA08", "U+1DA09", "U+1DA0A",
     "U+1DA0B", "U+1DA0C", "U+1DA0D", "U+1DA0E", "U+1DA0F", "U+1DA10", "U+1DA11", "U+1DA12",
     "U+1DA13", "U+1DA14", "U+1DA15", "U+1DA16", "U+1DA17", "U+1DA18", "U+1DA19", "U+1DA1A",
     "U+1DA1B", "U+1DA1C", "U+1DA1D", "U+1DA1E", "U+1DA1F", "U+1DA20", "U+1DA21", "U+1DA22",
     "U+1DA23", "U+1DA24", "U+1DA25", "U+1DA26", "U+1DA27", "U+1DA28", "U+1DA29", "U+1DA2A",
     "U+1DA2B", "U+1DA2C", "U+1DA2D", "U+1DA2E", "U+1DA2F", "U+1DA30", "U+1DA31", "U+1DA32",
     "U+1DA33", "U+1DA34", "U+1DA35", "U+1DA36", "U+1DA3B", "U+1DA3C", "U+1DA3D", "U+1DA3E",
     "U+1DA3F", "U+1DA40", "U+1DA41", "U+1DA42", "U+1DA43", "U+1DA44", "U+1DA45", "U+1DA46",
     "U+1DA47", "U+1DA48", "U+1DA49", "U+1DA4A", "U+1DA4B", "U+1DA4C", "U+1DA4D", "U+1DA4E",
     "U+1DA4F", "U+1DA50", "U+1DA51", "U+1DA52", "U+1DA53", "U+1DA54", "U+1DA55", "U+1DA56",
     "U+1DA57", "U+1DA58", "U+1DA59", "U+1DA5A", "U+1DA5B", "U+1DA5C", "U+1DA5D", "U+1DA5E",
     "U+1DA5F", "U+1DA60", "U+1DA61", "U+1DA62", "U+1DA63", "U+1DA64", "U+1DA65", "U+1DA66",
     "U+1DA67", "U+1DA68", "U+1DA69", "U+1DA6A", "U+1DA6B", "U+1DA6C", "U+1DA75", "U+1DA84",
     "U+1DA9B", "U+1DA9C", "U+1DA9D", "U+1DA9E", "U+1DA9F", "U+1DAA1", "U+1DAA2", "U+1DAA3",
     "U+1DAA4", "U+1DAA5", "U+1DAA6", "U+1DAA7", "U+1DAA8", "U+1DAA9", "U+1DAAA", "U+1DAAB",
     "U+1DAAC", "U+1DAAD", "U+1DAAE", "U+1DAAF", "U+1E000", "U+1E001", "U+1E002", "U+1E003",
     "U+1E004", "U+1E005", "U+1E006", "U+1E008", "U+1E009", "U+1E00A", "U+1E00B", "U+1E00C",
     "U+1E00D", "U+1E00E", "U+1E00F", "U+1E010", "U+1E011", "U+1E012", "U+1E013", "U+1E014",
     "U+1E015", "U+1E016", "U+1E017", "U+1E018", "U+1E01B", "U+1E01C", "U+1E01D", "U+1E01E",
     "U+1E01F", "U+1E020", "U+1E021", "U+1E023", "U+1E024", "U+1E026", "U+1E027", "U+1E028",
     "U+1E029", "U+1E02A", "U+1E130", "U+1E131", "U+1E132", "U+1E133", "U+1E134", "U+1E135",
     "U+1E136", "U+1E137", "U+1E138", "U+1E139", "U+1E13A", "U+1E13B", "U+1E13C", "U+1E13D",
     "U+1E2AE", "U+1E2EC", "U+1E2ED", "U+1E2EE", "U+1E2EF", "U+1E8D0", "U+1E8D1", "U+1E8D2",
     "U+1E8D3", "U+1E8D4", "U+1E8D5", "U+1E8D6", "U+1E944", "U+1E945", "U+1E946", "U+1E947",
     "U+1E948", "U+1E949", "U+1E94A", "U+1E94B", "U+1F3FB", "U+1F3FC", "U+1F3FD", "U+1F3FE",
     "U+1F3FF", "U+E0001", "U+E0020", "U+E0021", "U+E0022", "U+E0023", "U+E0024", "U+E0025",
     "U+E0026", "U+E0027", "U+E0028", "U+E0029", "U+E002A", "U+E002B", "U+E002C", "U+E002D",
     "U+E002E", "U+E002F", "U+E0030", "U+E0031", "U+E0032", "U+E0033", "U+E0034", "U+E0035",
     "U+E0036", "U+E0037", "U+E0038", "U+E0039", "U+E003A", "U+E003B", "U+E003C", "U+E003D",
     "U+E003E", "U+E003F", "U+E0040", "U+E0041", "U+E0042", "U+E0043", "U+E0044", "U+E0045",
     "U+E0046", "U+E0047", "U+E0048", "U+E0049", "U+E004A", "U+E004B", "U+E004C", "U+E004D",
     "U+E004E", "U+E004F", "U+E0050", "U+E0051", "U+E0052", "U+E0053", "U+E0054", "U+E0055",
     "U+E0056", "U+E0057", "U+E0058", "U+E0059", "U+E005A", "U+E005B", "U+E005C", "U+E005D",
     "U+E005E", "U+E005F", "U+E0060", "U+E0061", "U+E0062", "U+E0063", "U+E0064", "U+E0065",
     "U+E0066", "U+E0067", "U+E0068", "U+E0069", "U+E006A", "U+E006B", "U+E006C", "U+E006D",
     "U+E006E", "U+E006F", "U+E0070", "U+E0071", "U+E0072", "U+E0073", "U+E0074", "U+E0075",
     "U+E0076", "U+E0077", "U+E0078", "U+E0079", "U+E007A", "U+E007B", "U+E007C", "U+E007D",
     "U+E007E", "U+E007F", "U+E0100", "U+E0101", "U+E0102", "U+E0103", "U+E0104", "U+E0105",
     "U+E0106", "U+E0107", "U+E0108", "U+E0109", "U+E010A", "U+E010B", "U+E010C", "U+E010D",
     "U+E010E", "U+E010F", "U+E0110", "U+E0111", "U+E0112", "U+E0113", "U+E0114", "U+E0115",
     "U+E0116", "U+E0117", "U+E0118", "U+E0119", "U+E011A", "U+E011B", "U+E011C", "U+E011D",
     "U+E011E", "U+E011F", "U+E0120", "U+E0121", "U+E0122", "U+E0123", "U+E0124", "U+E0125",
     "U+E0126", "U+E0127", "U+E0128", "U+E0129", "U+E012A", "U+E012B", "U+E012C", "U+E012D",
     "U+E012E", "U+E012F", "U+E0130", "U+E0131", "U+E0132", "U+E0133", "U+E0134", "U+E0135",
     "U+E0136", "U+E0137", "U+E0138", "U+E0139", "U+E013A", "U+E013B", "U+E013C", "U+E013D",
     "U+E013E", "U+E013F", "U+E0140", "U+E0141", "U+E0142", "U+E0143", "U+E0144", "U+E0145",
     "U+E0146", "U+E0147", "U+E0148", "U+E0149", "U+E014A", "U+E014B", "U+E014C", "U+E014D",
     "U+E014E", "U+E014F", "U+E0150", "U+E0151", "U+E0152", "U+E0153", "U+E0154", "U+E0155",
     "U+E0156", "U+E0157", "U+E0158", "U+E0159", "U+E015A", "U+E015B", "U+E015C", "U+E015D",
     "U+E015E", "U+E015F", "U+E0160", "U+E0161", "U+E0162", "U+E0163", "U+E0164", "U+E0165",
     "U+E0166", "U+E0167", "U+E0168", "U+E0169", "U+E016A", "U+E016B", "U+E016C", "U+E016D",
     "U+E016E", "U+E016F", "U+E0170", "U+E0171", "U+E0172", "U+E0173", "U+E0174", "U+E0175",
     "U+E0176", "U+E0177", "U+E0178", "U+E0179", "U+E017A", "U+E017B", "U+E017C", "U+E017D",
     "U+E017E", "U+E017F", "U+E0180", "U+E0181", "U+E0182", "U+E0183", "U+E0184", "U+E0185",
     "U+E0186", "U+E0187", "U+E0188", "U+E0189", "U+E018A", "U+E018B", "U+E018C", "U+E018D",
     "U+E018E", "U+E018F", "U+E0190", "U+E0191", "U+E0192", "U+E0193", "U+E0194", "U+E0195",
     "U+E0196", "U+E0197", "U+E0198", "U+E0199", "U+E019A", "U+E019B", "U+E019C", "U+E019D",
     "U+E019E", "U+E019F", "U+E01A0", "U+E01A1", "U+E01A2", "U+E01A3", "U+E01A4", "U+E01A5",
     "U+E01A6", "U+E01A7", "U+E01A8", "U+E01A9", "U+E01AA", "U+E01AB", "U+E01AC", "U+E01AD",
     "U+E01AE", "U+E01AF", "U+E01B0", "U+E01B1", "U+E01B2", "U+E01B3", "U+E01B4", "U+E01B5",
     "U+E01B6", "U+E01B7", "U+E01B8", "U+E01B9", "U+E01BA", "U+E01BB", "U+E01BC", "U+E01BD",
     "U+E01BE", "U+E01BF", "U+E01C0", "U+E01C1", "U+E01C2", "U+E01C3", "U+E01C4", "U+E01C5",
     "U+E01C6", "U+E01C7", "U+E01C8", "U+E01C9", "U+E01CA", "U+E01CB", "U+E01CC", "U+E01CD",
     "U+E01CE", "U+E01CF", "U+E01D0", "U+E01D1", "U+E01D2", "U+E01D3", "U+E01D4", "U+E01D5",
     "U+E01D6", "U+E01D7", "U+E01D8", "U+E01D9", "U+E01DA", "U+E01DB", "U+E01DC", "U+E01DD",
     "U+E01DE", "U+E01DF", "U+E01E0", "U+E01E1", "U+E01E2", "U+E01E3", "U+E01E4", "U+E01E5",
     "U+E01E6", "U+E01E7", "U+E01E8", "U+E01E9", "U+E01EA", "U+E01EB", "U+E01EC", "U+E01ED",
     "U+E01EE", "U+E01EF"}

\* the letters that make a capital sigma final or not (Cased), less the
\* ones skipped
Cased ==
    {"A", "B", "C", "D", "E", "F", "G", "H", "I", "J", "K", "L", "M", "N", "O", "P", "Q", "R",
     "S", "T", "U", "V", "W", "X", "Y", "Z", "a", "b", "c", "d", "e", "f", "g", "h", "i", "j",
     "k", "l", "m", "n", "o", "p", "q", "r", "s", "t", "u", "v", "w", "x", "y", "z", "ª", "µ",
     "º", "À", "Á", "Â", "Ã", "Ä", "Å", "Æ", "Ç", "È", "É", "Ê", "Ë", "Ì", "Í", "Î", "Ï", "Ð",
     "Ñ", "Ò", "Ó", "Ô", "Õ", "Ö", "Ø", "Ù", "Ú", "Û", "Ü", "Ý", "Þ", "ß", "à", "á", "â", "ã",
     "ä", "å", "æ", "ç", "è", "é", "ê", "ë", "ì", "í", "î", "ï", "ð", "ñ", "ò", "ó", "ô", "õ",
     "ö", "ø", "ù", "ú", "û", "ü", "ý", "þ", "ÿ", "U+0100", "U+0101", "U+0102", "U+0103",
     "U+0104", "U+0105", "U+0106", "U+0107", "U+0108", "U+0109", "U+010A", "U+010B", "U+010C",
     "U+010D", "U+010E", "U+010F", "U+0110", "U+0111", "U+0112", "U+0113", "U+0114", "U+0115",
     "U+0116", "U+0117", "U+0118", "U+0119", "U+011A", "U+011B", "U+011C", "U+011D", "U+011E",
     "U+011F", "U+0120", "U+0121", "U+0122", "U+0123", "U+0124", "U+0125", "U+0126", "U+0127",
     "U+0128", "U+0129", "U+012A", "U+012B", "U+012C", "U+012D", "U+012E", "U+012F", "U+0130",
     "U+0131", "U+0132", "U+0133", "U+0134", "U+0135", "U+0136", "U+0137", "U+0138", "U+0139",
     "U+013A", "U+013B", "U+013C", "U+013D", "U+013E", "U+013F", "U+0140", "U+0141", "U+0142",
     "U+0143", "U+0144", "U+0145", "U+0146", "U+0147", "U+0148", "U+0149", "U+014A", "U+014B",
     "U+014C", "U+014D", "U+014E", "U+014F", "U+0150", "U+0151", "U+0152", "U+0153", "U+0154",
     "U+0155", "U+0156", "U+0157", "U+0158", "U+0159", "U+015A", "U+015B", "U+015C", "U+015D",
     "U+015E", "U+015F", "U+0160", "U+0161", "U+0162", "U+0163", "U+0164", "U+0165", "U+0166",
     "U+0167", "U+0168", "U+0169", "U+016A", "U+016B", "U+016C", "U+016D", "U+016E", "U+016F",
     "U+0170", "U+0171", "U+0172", "U+0173", "U+0174", "U+0175", "U+0176", "U+0177", "U+0178",
     "U+0179", "U+017A", "U+017B", "U+017C", "U+017D", "U+017E", "U+017F", "ƀ", "Ɓ", "Ƃ", "ƃ",
     "Ƅ", "ƅ", "Ɔ", "Ƈ", "ƈ", "Ɖ", "Ɗ", "Ƌ", "ƌ", "ƍ", "Ǝ", "Ə", "Ɛ", "Ƒ", "ƒ", "Ɠ", "Ɣ", "ƕ",
     "Ɩ", "Ɨ", "Ƙ", "ƙ", "ƚ", "ƛ", "Ɯ", "Ɲ", "ƞ", "Ɵ", "Ơ", "ơ", "Ƣ", "ƣ", "Ƥ", "ƥ", "Ʀ", "Ƨ",
     "ƨ", "Ʃ", "ƪ", "ƫ", "Ƭ", "ƭ", "Ʈ", "Ư", "ư", "Ʊ", "Ʋ", "Ƴ", "ƴ", "Ƶ", "ƶ", "Ʒ", "Ƹ", "ƹ",
     "ƺ", "Ƽ", "ƽ", "ƾ", "ƿ", "Ǆ", "ǅ", "ǆ", "Ǉ", "ǈ", "ǉ", "Ǌ", "ǋ", "ǌ", "Ǎ", "ǎ", "Ǐ", "ǐ",
     "Ǒ", "ǒ", "Ǔ", "ǔ", "Ǖ", "ǖ", "Ǘ", "ǘ", "Ǚ", "ǚ", "Ǜ", "ǜ", "ǝ", "Ǟ", "ǟ", "Ǡ", "ǡ", "Ǣ",
     "ǣ", "Ǥ", "ǥ", "Ǧ", "ǧ", "Ǩ", "ǩ", "Ǫ", "ǫ", "Ǭ", "ǭ", "Ǯ", "ǯ", "ǰ", "Ǳ", "ǲ", "ǳ", "Ǵ",
     "ǵ", "Ƕ", "Ƿ", "Ǹ", "ǹ", "Ǻ", "ǻ", "Ǽ", "ǽ", "Ǿ", "ǿ", "U+0200", "U+0201", "U+0202",
     "U+0203", "U+0204", "U+0205", "U+0206", "U+0207", "U+0208", "U+0209", "U+020A", "U+020B",
     "U+020C", "U+020D", "U+020E", "U+020F", "U+0210", "U+0211", "U+0212", "U+0213", "U+0214",
     "U+0215", "U+0216", "U+0217", "U+0218", "U+0219", "U+021A", "U+021B", "U+021C", "U+021D",
     "U+021E", "U+021F", "U+0220", "U+0221", "U+0222", "U+0223", "U+0224", "U+0225", "U+0226",
     "U+0227", "U+0228", "U+0229", "U+022A", "U+022B", "U+022C", "U+022D", "U+022E", "U+022F",
     "U+0230", "U+0231", "U+0232", "U+0233", "U+0234", "U+0235", "U+0236", "U+0237", "U+0238",
     "U+0239", "U+023A", "U+023B", "U+023C", "U+023D", "U+023E", "U+023F", "U+0240", "U+0241",
     "U+0242", "U+0243", "U+0244", "U+0245", "U+0246", "U+0247", "U+0248", "U+0249", "U+024A",
     "U+024B", "U+024C", "U+024D", "U+024E", "U+024F", "U+0250", "U+0251", "U+0252", "U+0253",
     "U+0254", "U+0255", "U+0256", "U+0257", "U+0258", "U+0259", "U+025A", "U+025B", "U+025C",
     "U+025D", "U+025E", "U+025F", "U+0260", "U+0261", "U+0262", "U+0263", "U+0264", "U+0265",
     "U+0266", "U+0267", "U+0268", "U+0269", "U+026A", "U+026B", "U+026C", "U+026D", "U+026E",
     "U+026F", "U+0270", "U+0271", "U+0272", "U+0273", "U+0274", "U+0275", "U+0276", "U+0277",
     "U+0278", "U+0279", "U+027A", "U+027B", "U+027C", "U+027D", "U+027E", "U+027F", "ʀ", "ʁ",
     "ʂ", "ʃ", "ʄ", "ʅ", "ʆ", "ʇ", "ʈ", "ʉ", "ʊ", "ʋ", "ʌ", "ʍ", "ʎ", "ʏ", "ʐ", "ʑ", "ʒ", "ʓ",
     "ʕ", "ʖ", "ʗ", "ʘ", "ʙ", "ʚ", "ʛ", "ʜ", "ʝ", "ʞ", "ʟ", "ʠ", "ʡ", "ʢ", "ʣ", "ʤ", "ʥ", "ʦ",
     "ʧ", "ʨ", "ʩ", "ʪ", "ʫ", "ʬ", "ʭ", "ʮ", "ʯ", "U+0370", "U+0371", "U+0372", "U+0373",
     "U+0376", "U+0377", "U+037B", "U+037C", "U+037D", "U+037F", "Ά", "Έ", "Ή", "Ί", "Ό", "Ύ",
     "Ώ", "ΐ", "Α", "Β", "Γ", "Δ", "Ε", "Ζ", "Η", "Θ", "Ι", "Κ", "Λ", "Μ", "Ν", "Ξ", "Ο", "Π",
     "Ρ", "Σ", "Τ", "Υ", "Φ", "Χ", "Ψ", "Ω", "Ϊ", "Ϋ", "ά", "έ", "ή", "ί", "ΰ", "α", "β", "γ",
     "δ", "ε", "ζ", "η", "θ", "ι", "κ", "λ", "μ", "ν", "ξ", "ο", "π", "ρ", "ς", "σ", "τ", "υ",
     "φ", "χ", "ψ", "ω", "ϊ", "ϋ", "ό", "ύ", "ώ", "Ϗ", "ϐ", "ϑ", "ϒ", "ϓ", "ϔ", "ϕ", "ϖ", "ϗ",
     "Ϙ", "ϙ", "Ϛ", "ϛ", "Ϝ", "ϝ", "Ϟ", "ϟ", "Ϡ", "ϡ", "Ϣ", "ϣ", "Ϥ", "ϥ", "Ϧ", "ϧ", "Ϩ", "ϩ",
     "Ϫ", "ϫ", "Ϭ", "ϭ", "Ϯ", "ϯ", "ϰ", "ϱ", "ϲ", "ϳ", "ϴ", "ϵ", "Ϸ", "ϸ", "Ϲ", "Ϻ", "ϻ", "ϼ",
     "Ͻ", "Ͼ", "Ͽ", "U+0400", "U+0401", "U+0402", "U+0403", "U+0404", "U+0405", "U+0406",
     "U+0407", "U+0408", "U+0409", "U+040A", "U+040B", "U+040C", "U+040D", "U+040E", "U+040F",
     "U+0410", "U+0411", "U+0412", "U+0413", "U+0414", "U+0415", "U+0416", "U+0417", "U+0418",
     "U+0419", "U+041A", "U+041B", "U+041C", "U+041D", "U+041E", "U+041F", "U+0420", "U+0421",
     "U+0422", "U+0423", "U+0424", "U+0425", "U+0426", "U+0427", "U+0428", "U+0429", "U+042A",
     "U+042B", "U+042C", "U+042D", "U+042E", "U+042F", "U+0430", "U+0431", "U+0432", "U+0433",
     "U+0434", "U+0435", "U+0436", "U+0437", "U+0438", "U+0439", "U+043A", "U+043B", "U+043C",
     "U+043D", "U+043E", "U+043F", "U+0440", "U+0441", "U+0442", "U+0443", "U+0444", "U+0445",
     "U+0446", "U+0447", "U+0448", "U+0449", "U+044A", "U+044B", "U+044C", "U+044D", "U+044E",
     "U+044F", "U+0450", "U+0451", "U+0452", "U+0453", "U+0454", "U+0455", "U+0456", "U+0457",
     "U+0458", "U+0459", "U+045A", "U+045B", "U+045C", "U+045D", "U+045E", "U+045F", "U+0460",
     "U+0461", "U+0462", "U+0463", "U+0464", "U+0465", "U+0466", "U+0467", "U+0468", "U+0469",
     "U+046A", "U+046B", "U+046C", "U+046D", "U+046E", "U+046F", "U+0470", "U+0471", "U+0472",
     "U+0473", "U+0474", "U+0475", "U+0476", "U+0477", "U+0478", "U+0479", "U+047A", "U+047B",
     "U+047C", "U+047D", "U+047E", "U+047F", "Ҁ", "ҁ", "Ҋ", "ҋ", "Ҍ", "ҍ", "Ҏ", "ҏ", "Ґ", "ґ",
     "Ғ", "ғ", "Ҕ", "ҕ", "Җ", "җ", "Ҙ", "ҙ", "Қ", "қ", "Ҝ", "ҝ", "Ҟ", "ҟ", "Ҡ", "ҡ", "Ң", "ң",
     "Ҥ", "ҥ", "Ҧ", "ҧ", "Ҩ", "ҩ", "Ҫ", "ҫ", "Ҭ", "ҭ", "Ү", "ү", "Ұ", "ұ", "Ҳ", "ҳ", "Ҵ", "ҵ",
     "Ҷ", "ҷ", "Ҹ", "ҹ", "Һ", "һ", "Ҽ", "ҽ", "Ҿ", "ҿ", "Ӏ", "Ӂ", "ӂ", "Ӄ", "ӄ", "Ӆ", "ӆ", "Ӈ",
     "ӈ", "Ӊ", "ӊ", "Ӌ", "ӌ", "Ӎ", "ӎ", "ӏ", "Ӑ", "ӑ", "Ӓ", "ӓ", "Ӕ", "ӕ", "Ӗ", "ӗ", "Ә", "ә",
     "Ӛ", "ӛ", "Ӝ", "ӝ", "Ӟ", "ӟ", "Ӡ", "ӡ", "Ӣ", "ӣ", "Ӥ", "ӥ", "Ӧ", "ӧ", "Ө", "ө", "Ӫ", "ӫ",
     "Ӭ", "ӭ", "Ӯ", "ӯ", "Ӱ", "ӱ", "Ӳ", "ӳ", "Ӵ", "ӵ", "Ӷ", "ӷ", "Ӹ", "ӹ", "Ӻ", "ӻ", "Ӽ", "ӽ",
     "Ӿ", "ӿ", "U+0500", "U+0501", "U+0502", "U+0503", "U+0504", "U+0505", "U+0506", "U+0507",
     "U+0508", "U+0509", "U+050A", "U+050B", "U+050C", "U+050D", "U+050E", "U+050F", "U+0510",
     "U+0511", "U+0512", "U+0513", "U+0514", "U+0515", "U+0516", "U+0517", "U+0518", "U+0519",
     "U+051A", "U+051B", "U+051C", "U+051D", "U+051E", "U+051F", "U+0520", "U+0521", "U+0522",
     "U+0523", "U+0524", "U+0525", "U+0526", "U+0527", "U+0528", "U+0529", "U+052A", "U+052B",
     "U+052C", "U+052D", "U+052E", "U+052F", "U+0531", "U+0532", "U+0533", "U+0534", "U+0535",
     "U+0536", "U+0537", "U+0538", "U+0539", "U+053A", "U+053B", "U+053C", "U+053D", "U+053E",
     "U+053F", "U+0540", "U+0541", "U+0542", "U+0543", "U+0544", "U+0545", "U+0546", "U+0547",
     "U+0548", "U+0549", "U+054A", "U+054B", "U+054C", "U+054D", "U+054E", "U+054F", "U+0550",
     "U+0551", "U+0552", "U+0553", "U+0554", "U+0555", "U+0556", "U+0560", "U+0561", "U+0562",
     "U+0563", "U+0564", "U+0565", "U+0566", "U+0567", "U+0568", "U+0569", "U+056A", "U+056B",
     "U+056C", "U+056D", "U+056E", "U+056F", "U+0570", "U+0571", "U+0572", "U+0573", "U+0574",
     "U+0575", "U+0576", "U+0577", "U+0578", "U+0579", "U+057A", "U+057B", "U+057C", "U+057D",
     "U+057E", "U+057F", "ր", "ց", "ւ", "փ", "ք", "օ", "ֆ", "և", "ֈ", "Ⴀ", "Ⴁ", "Ⴂ", "Ⴃ", "Ⴄ",
     "Ⴅ", "Ⴆ", "Ⴇ", "Ⴈ", "Ⴉ", "Ⴊ", "Ⴋ", "Ⴌ", "Ⴍ", "Ⴎ", "Ⴏ", "Ⴐ", "Ⴑ", "Ⴒ", "Ⴓ", "Ⴔ", "Ⴕ", "Ⴖ",
     "Ⴗ", "Ⴘ", "Ⴙ", "Ⴚ", "Ⴛ", "Ⴜ", "Ⴝ", "Ⴞ", "Ⴟ", "Ⴠ", "Ⴡ", "Ⴢ", "Ⴣ", "Ⴤ", "Ⴥ", "Ⴧ", "Ⴭ", "ა",
     "ბ", "გ", "დ", "ე", "ვ", "ზ", "თ", "ი", "კ", "ლ", "მ", "ნ", "ო", "პ", "ჟ", "რ", "ს", "ტ",
     "უ", "ფ", "ქ", "ღ", "ყ", "შ", "ჩ", "ც", "ძ", "წ", "ჭ", "ხ", "ჯ", "ჰ", "ჱ", "ჲ", "ჳ", "ჴ",
     "ჵ", "ჶ", "ჷ", "ჸ", "ჹ", "ჺ", "ჽ", "ჾ", "ჿ", "Ꭰ", "Ꭱ", "Ꭲ", "Ꭳ", "Ꭴ", "Ꭵ", "Ꭶ", "Ꭷ", "Ꭸ",
     "Ꭹ", "Ꭺ", "Ꭻ", "Ꭼ", "Ꭽ", "Ꭾ", "Ꭿ", "Ꮀ", "Ꮁ", "Ꮂ", "Ꮃ", "Ꮄ", "Ꮅ", "Ꮆ", "Ꮇ", "Ꮈ", "Ꮉ", "Ꮊ",
     "Ꮋ", "Ꮌ", "Ꮍ", "Ꮎ", "Ꮏ", "Ꮐ", "Ꮑ", "Ꮒ", "Ꮓ", "Ꮔ", "Ꮕ", "Ꮖ", "Ꮗ", "Ꮘ", "Ꮙ", "Ꮚ", "Ꮛ", "Ꮜ",
     "Ꮝ", "Ꮞ", "Ꮟ", "Ꮠ", "Ꮡ", "Ꮢ", "Ꮣ", "Ꮤ", "Ꮥ", "Ꮦ", "Ꮧ", "Ꮨ", "Ꮩ", "Ꮪ", "Ꮫ", "Ꮬ", "Ꮭ", "Ꮮ",
     "Ꮯ", "Ꮰ", "Ꮱ", "Ꮲ", "Ꮳ", "Ꮴ", "Ꮵ", "Ꮶ", "Ꮷ", "Ꮸ", "Ꮹ", "Ꮺ", "Ꮻ", "Ꮼ", "Ꮽ", "Ꮾ", "Ꮿ", "Ᏸ",
     "Ᏹ", "Ᏺ", "Ᏻ", "Ᏼ", "Ᏽ", "ᏸ", "ᏹ", "ᏺ", "ᏻ", "ᏼ", "ᏽ", "ᲀ", "ᲁ", "ᲂ", "ᲃ", "ᲄ", "ᲅ", "ᲆ",
     "ᲇ", "ᲈ", "Ა", "Ბ", "Გ", "Დ", "Ე", "Ვ", "Ზ", "Თ", "Ი", "Კ", "Ლ", "Მ", "Ნ", "Ო", "Პ", "Ჟ",
     "Რ", "Ს", "Ტ", "Უ", "Ფ", "Ქ", "Ღ", "Ყ", "Შ", "Ჩ", "Ც", "Ძ", "Წ", "Ჭ", "Ხ", "Ჯ", "Ჰ", "Ჱ",
     "Ჲ", "Ჳ", "Ჴ", "Ჵ", "Ჶ", "Ჷ", "Ჸ", "Ჹ", "Ჺ", "Ჽ", "Ჾ", "Ჿ", "U+1D00", "U+1D01", "U+1D02",
     "U+1D03", "U+1D04", "U+1D05", "U+1D06", "U+1D07", "U+1D08", "U+1D09", "U+1D0A", "U+1D0B",
     "U+1D0C", "U+1D0D", "U+1D0E", "U+1D0F", "U+1D10", "U+1D11", "U+1D12", "U+1D13", "U+1D14",
     "U+1D15", "U+1D16", "U+1D17", "U+1D18", "U+1D19", "U+1D1A", "U+1D1B", "U+1D1C", "U+1D1D",
     "U+1D1E", "U+1D1F", "U+1D20", "U+1D21", "U+1D22", "U+1D23", "U+1D24", "U+1D25", "U+1D26",
     "U+1D27", "U+1D28", "U+1D29", "U+1D2A", "U+1D2B", "U+1D6B", "U+1D6C", "U+1D6D", "U+1D6E",
     "U+1D6F", "U+1D70", "U+1D71", "U+1D72", "U+1D73", "U+1D74", "U+1D75", "U+1D76", "U+1D77",
     "U+1D79", "U+1D7A", "U+1D7B", "U+1D7C", "U+1D7D", "U+1D7E", "U+1D7F", "ᶀ", "ᶁ", "ᶂ", "ᶃ",
     "ᶄ", "ᶅ", "ᶆ", "ᶇ", "ᶈ", "ᶉ", "ᶊ", "ᶋ", "ᶌ", "ᶍ", "ᶎ", "ᶏ", "ᶐ", "ᶑ", "ᶒ", "ᶓ", "ᶔ", "ᶕ",
     "ᶖ", "ᶗ", "ᶘ", "ᶙ", "ᶚ", "U+1E00", "U+1E01", "U+1E02", "U+1E03", "U+1E04", "U+1E05",
     "U+1E06", "U+1E07", "U+1E08", "U+1E09", "U+1E0A", "U+1E0B", "U+1E0C", "U+1E0D", "U+1E0E",
     "U+1E0F", "U+1E10", "U+1E11", "U+1E12", "U+1E13", "U+1E14", "U+1E15", "U+1E16", "U+1E17",
     "U+1E18", "U+1E19", "U+1E1A", "U+1E1B", "U+1E1C", "U+1E1D", "U+1E1E", "U+1E1F", "U+1E20",
     "U+1E21", "U+1E22", "U+1E23", "U+1E24", "U+1E25", "U+1E26", "U+1E27", "U+1E28", "U+1E29",
     "U+1E2A", "U+1E2B", "U+1E2C", "U+1E2D", "U+1E2E", "U+1E2F", "U+1E30", "U+1E31", "U+1E32",
     "U+1E33", "U+1E34", "U+1E35", "U+1E36", "U+1E37", "U+1E38", "U+1E39", "U+1E3A", "U+1E3B",
     "U+1E3C", "U+1E3D", "U+1E3E", "U+1E3F", "U+1E40", "U+1E41", "U+1E42", "U+1E43", "U+1E44",
     "U+1E45", "U+1E46", "U+1E47", "U+1E48", "U+1E49", "U+1E4A", "U+1E4B", "U+1E4C", "U+1E4D",
     "U+1E4E", "U+1E4F", "U+1E50", "U+1E51", "U+1E52", "U+1E53", "U+1E54", "U+1E55", "U+1E56",
     "U+1E57", "U+1E58", "U+1E59", "U+1E5A", "U+1E5B", "U+1E5C", "U+1E5D", "U+1E5E", "U+1E5F",
     "U+1E60", "U+1E61", "U+1E62", "U+1E63", "U+1E64", "U+1E65", "U+1E66", "U+1E67", "U+1E68",
     "U+1E69", "U+1E6A", "U+1E6B", "U+1E6C", "U+1E6D", "U+1E6E", "U+1E6F", "U+1E70", "U+1E71",
     "U+1E72", "U+1E73", "U+1E74", "U+1E75", "U+1E76", "U+1E77", "U+1E78", "U+1E79", "U+1E7A",
     "U+1E7B", "U+1E7C", "U+1E7D", "U+1E7E", "U+1E7F", "Ẁ", "ẁ", "Ẃ", "ẃ", "Ẅ", "ẅ", "Ẇ", "ẇ",
     "Ẉ", "ẉ", "Ẋ", "ẋ", "Ẍ", "ẍ", "Ẏ", "ẏ", "Ẑ", "ẑ", "Ẓ", "ẓ", "Ẕ", "ẕ", "ẖ", "ẗ", "ẘ", "ẙ",
     "ẚ", "ẛ", "ẜ", "ẝ", "ẞ", "ẟ", "Ạ", "ạ", "Ả", "ả", "Ấ", "ấ", "Ầ", "ầ", "Ẩ", "ẩ", "Ẫ", "ẫ",
     "Ậ", "ậ", "Ắ", "ắ", "Ằ", "ằ", "Ẳ", "ẳ", "Ẵ", "ẵ", "Ặ", "ặ", "Ẹ", "ẹ", "Ẻ", "ẻ", "Ẽ", "ẽ",
     "Ế", "ế", "Ề", "ề", "Ể", "ể", "Ễ", "ễ", "Ệ", "ệ", "Ỉ", "ỉ", "Ị", "ị", "Ọ", "ọ", "Ỏ", "ỏ",
     "Ố", "ố", "Ồ", "ồ", "Ổ", "ổ", "Ỗ", "ỗ", "Ộ", "ộ", "Ớ", "ớ", "Ờ", "ờ", "Ở", "ở", "Ỡ", "ỡ",
     "Ợ", "ợ", "Ụ", "ụ", "Ủ", "ủ", "Ứ", "ứ", "Ừ", "ừ", "Ử", "ử", "Ữ", "ữ", "Ự", "ự", "Ỳ", "ỳ",
     "Ỵ", "ỵ", "Ỷ", "ỷ", "Ỹ", "ỹ", "Ỻ", "ỻ", "Ỽ", "ỽ", "Ỿ", "ỿ", "U+1F00", "U+1F01", "U+1F02",
     "U+1F03", "U+1F04", "U+1F05", "U+1F06", "U+1F07", "U+1F08", "U+1F09", "U+1F0A", "U+1F0B",
     "U+1F0C", "U+1F0D", "U+1F0E", "U+1F0F", "U+1F10", "U+1F11", "U+1F12", "U+1F13", "U+1F14",
     "U+1F15", "U+1F18", "U+1F19", "U+1F1A", "U+1F1B", "U+1F1C", "U+1F1D", "U+1F20", "U+1F21",
     "U+1F22", "U+1F23", "U+1F24", "U+1F25", "U+1F26", "U+1F27", "U+1F28", "U+1F29", "U+1F2A",
     "U+1F2B", "U+1F2C", "U+1F2D", "U+1F2E", "U+1F2F", "U+1F30", "U+1F31", "U+1F32", "U+1F33",
     "U+1F34", "U+1F35", "U+1F36", "U+1F37", "U+1F38", "U+1F39", "U+1F3A", "U+1F3B", "U+1F3C",
     "U+1F3D", "U+1F3E", "U+1F3F", "U+1F40", "U+1F41", "U+1F42", "U+1F43", "U+1F44", "U+1F45",
     "U+1F48", "U+1F49", "U+1F4A", "U+1F4B", "U+1F4C", "U+1F4D", "U+1F50", "U+1F51", "U+1F52",
     "U+1F53", "U+1F54", "U+1F55", "U+1F56", "U+1F57", "U+1F59", "U+1F5B", "U+1F5D", "U+1F5F",
     "U+1F60", "U+1F61", "U+1F62", "U+1F63", "U+1F64", "U+1F65", "U+1F66", "U+1F67", "U+1F68",
     "U+1F69", "U+1F6A", "U+1F6B", "U+1F6C", "U+1F6D", "U+1F6E", "U+1F6F", "U+1F70", "U+1F71",
     "U+1F72", "U+1F73", "U+1F74", "U+1F75", "U+1F76", "U+1F77", "U+1F78", "U+1F79", "U+1F7A",
     "U+1F7B", "U+1F7C", "U+1F7D", "ᾀ", "ᾁ", "ᾂ", "ᾃ", "ᾄ", "ᾅ", "ᾆ", "ᾇ", "ᾈ", "ᾉ", "ᾊ", "ᾋ",
     "ᾌ", "ᾍ", "ᾎ", "ᾏ", "ᾐ", "ᾑ", "ᾒ", "ᾓ", "ᾔ", "ᾕ", "ᾖ", "ᾗ", "ᾘ", "ᾙ", "ᾚ", "ᾛ", "ᾜ", "ᾝ",
     "ᾞ", "ᾟ", "ᾠ", "ᾡ", "ᾢ", "ᾣ", "ᾤ", "ᾥ", "ᾦ", "ᾧ", "ᾨ", "ᾩ", "ᾪ", "ᾫ", "ᾬ", "ᾭ", "ᾮ", "ᾯ",
     "ᾰ", "ᾱ", "ᾲ", "ᾳ", "ᾴ", "ᾶ", "ᾷ", "Ᾰ", "Ᾱ", "Ὰ", "Ά", "ᾼ", "ι", "ῂ", "ῃ", "ῄ", "ῆ", "ῇ",
     "Ὲ", "Έ", "Ὴ", "Ή", "ῌ", "ῐ", "ῑ", "ῒ", "ΐ", "ῖ", "ῗ", "Ῐ", "Ῑ", "Ὶ", "Ί", "ῠ", "ῡ", "ῢ",
     "ΰ", "ῤ", "ῥ", "ῦ", "ῧ", "Ῠ", "Ῡ", "Ὺ", "Ύ", "Ῥ", "ῲ", "ῳ", "ῴ", "ῶ", "ῷ", "Ὸ", "Ό", "Ὼ",
     "Ώ", "ῼ", "U+2102", "U+2107", "U+210A", "U+210B", "U+210C", "U+210D", "U+210E", "U+210F",
     "U+2110", "U+2111", "U+2112", "U+2113", "U+2115", "U+2119", "U+211A", "U+211B", "U+211C",
     "U+211D", "U+2124", "U+2126", "U+2128", "U+212A", "U+212B", "U+212C", "U+212D", "U+212F",
     "U+2130", "U+2131", "U+2132", "U+2133", "U+2134", "U+2139", "U+213C", "U+213D", "U+213E",
     "U+213F", "U+2145", "U+2146", "U+2147", "U+2148", "U+2149", "U+214E", "U+2160", "U+2161",
     "U+2162", "U+2163", "U+2164", "U+2165", "U+2166", "U+2167", "U+2168", "U+2169", "U+216A",
     "U+216B", "U+216C", "U+216D", "U+216E", "U+216F", "U+2170", "U+2171", "U+2172", "U+2173",
     "U+2174", "U+2175", "U+2176", "U+2177", "U+2178", "U+2179", "U+217A", "U+217B", "U+217C",
     "U+217D", "U+217E", "U+217F", "Ↄ", "ↄ", "Ⓐ", "Ⓑ", "Ⓒ", "Ⓓ", "Ⓔ", "Ⓕ", "Ⓖ", "Ⓗ", "Ⓘ", "Ⓙ",
     "Ⓚ", "Ⓛ", "Ⓜ", "Ⓝ", "Ⓞ", "Ⓟ", "Ⓠ", "Ⓡ", "Ⓢ", "Ⓣ", "Ⓤ", "Ⓥ", "Ⓦ", "Ⓧ", "Ⓨ", "Ⓩ", "ⓐ", "ⓑ",
     "ⓒ", "ⓓ", "ⓔ", "ⓕ", "ⓖ", "ⓗ", "ⓘ", "ⓙ", "ⓚ", "ⓛ", "ⓜ", "ⓝ", "ⓞ", "ⓟ", "ⓠ", "ⓡ", "ⓢ", "ⓣ",
     "ⓤ", "ⓥ", "ⓦ", "ⓧ", "ⓨ", "ⓩ", "U+2C00", "U+2C01", "U+2C02", "U+2C03", "U+2C04", "U+2C05",
     "U+2C06", "U+2C07", "U+2C08", "U+2C09", "U+2C0A", "U+2C0B", "U+2C0C", "U+2C0D", "U+2C0E",
     "U+2C0F", "U+2C10", "U+2C11", "U+2C12", "U+2C13", "U+2C14", "U+2C15", "U+2C16", "U+2C17",
     "U+2C18", "U+2C19", "U+2C1A", "U+2C1B", "U+2C1C", "U+2C1D", "U+2C1E", "U+2C1F", "U+2C20",
     "U+2C21", "U+2C22", "U+2C23", "U+2C24", "U+2C25", "U+2C26", "U+2C27", "U+2C28", "U+2C29",
     "U+2C2A", "U+2C2B", "U+2C2C", "U+2C2D", "U+2C2E", "U+2C2F", "U+2C30", "U+2C31", "U+2C32",
     "U+2C33", "U+2C34", "U+2C35", "U+2C36", "U+2C37", "U+2C38", "U+2C39", "U+2C3A", "U+2C3B",
     "U+2C3C", "U+2C3D", "U+2C3E", "U+2C3F", "U+2C40", "U+2C41", "U+2C42", "U+2C43", "U+2C44",
     "U+2C45", "U+2C46", "U+2C47", "U+2C48", "U+2C49", "U+2C4A", "U+2C4B", "U+2C4C", "U+2C4D",
     "U+2C4E", "U+2C4F", "U+2C50", "U+2C51", "U+2C52", "U+2C53", "U+2C54", "U+2C55", "U+2C56",
     "U+2C57", "U+2C58", "U+2C59", "U+2C5A", "U+2C5B", "U+2C5C", "U+2C5D", "U+2C5E", "U+2C5F",
     "U+2C60", "U+2C61", "U+2C62", "U+2C63", "U+2C64", "U+2C65", "U+2C66", "U+2C67", "U+2C68",
     "U+2C69", "U+2C6A", "U+2C6B", "U+2C6C", "U+2C6D", "U+2C6E", "U+2C6F", "U+2C70", "U+2C71",
     "U+2C72", "U+2C73", "U+2C74", "U+2C75", "U+2C76", "U+2C77", "U+2C78", "U+2C79", "U+2C7A",
     "U+2C7B", "U+2C7E", "U+2C7F", "Ⲁ", "ⲁ", "Ⲃ", "ⲃ", "Ⲅ", "ⲅ", "Ⲇ", "ⲇ", "Ⲉ", "ⲉ", "Ⲋ", "ⲋ",
     "Ⲍ", "ⲍ", "Ⲏ", "ⲏ", "Ⲑ", "ⲑ", "Ⲓ", "ⲓ", "Ⲕ", "ⲕ", "Ⲗ", "ⲗ", "Ⲙ", "ⲙ", "Ⲛ", "ⲛ", "Ⲝ", "ⲝ",
     "Ⲟ", "ⲟ", "Ⲡ", "ⲡ", "Ⲣ", "ⲣ", "Ⲥ", "ⲥ", "Ⲧ", "ⲧ", "Ⲩ", "ⲩ", "Ⲫ", "ⲫ", "Ⲭ", "ⲭ", "Ⲯ", "ⲯ",
     "Ⲱ", "ⲱ", "Ⲳ", "ⲳ", "Ⲵ", "ⲵ", "Ⲷ", "ⲷ", "Ⲹ", "ⲹ", "Ⲻ", "ⲻ", "Ⲽ", "ⲽ", "Ⲿ", "ⲿ", "Ⳁ", "ⳁ",
     "Ⳃ", "ⳃ", "Ⳅ", "ⳅ", "Ⳇ", "ⳇ", "Ⳉ", "ⳉ", "Ⳋ", "ⳋ", "Ⳍ", "ⳍ", "Ⳏ", "ⳏ", "Ⳑ", "ⳑ", "Ⳓ", "ⳓ",
     "Ⳕ", "ⳕ", "Ⳗ", "ⳗ", "Ⳙ", "ⳙ", "Ⳛ", "ⳛ", "Ⳝ", "ⳝ", "Ⳟ", "ⳟ", "Ⳡ", "ⳡ", "Ⳣ", "ⳣ", "ⳤ", "Ⳬ",
     "ⳬ", "Ⳮ", "ⳮ", "Ⳳ", "ⳳ", "U+2D00", "U+2D01", "U+2D02", "U+2D03", "U+2D04", "U+2D05",
     "U+2D06", "U+2D07", "U+2D08", "U+2D09", "U+2D0A", "U+2D0B", "U+2D0C", "U+2D0D", "U+2D0E",
     "U+2D0F", "U+2D10", "U+2D11", "U+2D12", "U+2D13", "U+2D14", "U+2D15", "U+2D16", "U+2D17",
     "U+2D18", "U+2D19", "U+2D1A", "U+2D1B", "U+2D1C", "U+2D1D", "U+2D1E", "U+2D1F", "U+2D20",
     "U+2D21", "U+2D22", "U+2D23", "U+2D24", "U+2D25", "U+2D27", "U+2D2D", "U+A640", "U+A641",
     "U+A642", "U+A643", "U+A644", "U+A645", "U+A646", "U+A647", "U+A648", "U+A649", "U+A64A",
     "U+A64B", "U+A64C", "U+A64D", "U+A64E", "U+A64F", "U+A650", "U+A651", "U+A652", "U+A653",
     "U+A654", "U+A655", "U+A656", "U+A657", "U+A658", "U+A659", "U+A65A", "U+A65B", "U+A65C",
     "U+A65D", "U+A65E", "U+A65F", "U+A660", "U+A661", "U+A662", "U+A663", "U+A664", "U+A665",
     "U+A666", "U+A667", "U+A668", "U+A669", "U+A66A", "U+A66B", "U+A66C", "U+A66D", "Ꚁ", "ꚁ",
     "Ꚃ", "ꚃ", "Ꚅ", "ꚅ", "Ꚇ", "ꚇ", "Ꚉ", "ꚉ", "Ꚋ", "ꚋ", "Ꚍ", "ꚍ", "Ꚏ", "ꚏ", "Ꚑ", "ꚑ", "Ꚓ", "ꚓ",
     "Ꚕ", "ꚕ", "Ꚗ", "ꚗ", "Ꚙ", "ꚙ", "Ꚛ", "ꚛ", "U+A722", "U+A723", "U+A724", "U+A725", "U+A726",
     "U+A727", "U+A728", "U+A729", "U+A72A", "U+A72B", "U+A72C", "U+A72D", "U+A72E", "U+A72F",
     "U+A730", "U+A731", "U+A732", "U+A733", "U+A734", "U+A735", "U+A736", "U+A737", "U+A738",
     "U+A739", "U+A73A", "U+A73B", "U+A73C", "U+A73D", "U+A73E", "U+A73F", "U+A740", "U+A741",
     "U+A742", "U+A743", "U+A744", "U+A745", "U+A746", "U+A747", "U+A748", "U+A749", "U+A74A",
     "U+A74B", "U+A74C", "U+A74D", "U+A74E", "U+A74F", "U+A750", "U+A751", "U+A752", "U+A753",
     "U+A754", "U+A755", "U+A756", "U+A757", "U+A758", "U+A759", "U+A75A", "U+A75B", "U+A75C",
     "U+A75D", "U+A75E", "U+A75F", "U+A760", "U+A761", "U+A762", "U+A763", "U+A764", "U+A765",
     "U+A766", "U+A767", "U+A768", "U+A769", "U+A76A", "U+A76B", "U+A76C", "U+A76D", "U+A76E",
     "U+A76F", "U+A771", "U+A772", "U+A773", "U+A774", "U+A775", "U+A776", "U+A777", "U+A778",
     "U+A779", "U+A77A", "U+A77B", "U+A77C", "U+A77D", "U+A77E", "U+A77F", "Ꞁ", "ꞁ", "Ꞃ", "ꞃ",
     "Ꞅ", "ꞅ", "Ꞇ", "ꞇ", "Ꞌ", "ꞌ", "Ɥ", "ꞎ", "Ꞑ", "ꞑ", "Ꞓ", "ꞓ", "ꞔ", "ꞕ", "Ꞗ", "ꞗ", "Ꞙ", "ꞙ",
     "Ꞛ", "ꞛ", "Ꞝ", "ꞝ", "Ꞟ", "ꞟ", "Ꞡ", "ꞡ", "Ꞣ", "ꞣ", "Ꞥ", "ꞥ", "Ꞧ", "ꞧ", "Ꞩ", "ꞩ", "Ɦ", "Ɜ",
     "Ɡ", "Ɬ", "Ɪ", "ꞯ", "Ʞ", "Ʇ", "Ʝ", "Ꭓ", "Ꞵ", "ꞵ", "Ꞷ", "ꞷ", "Ꞹ", "ꞹ", "Ꞻ", "ꞻ", "Ꞽ", "ꞽ",
     "Ꞿ", "ꞿ", "Ꟁ", "ꟁ", "Ꟃ", "ꟃ", "Ꞔ", "Ʂ", "Ᶎ", "Ꟈ", "ꟈ", "Ꟊ", "ꟊ", "Ꟑ", "ꟑ", "ꟓ", "ꟕ", "Ꟗ",
     "ꟗ", "Ꟙ", "ꟙ", "Ꟶ", "ꟶ", "ꟺ", "U+AB30", "U+AB31", "U+AB32", "U+AB33", "U+AB34", "U+AB35",
     "U+AB36", "U+AB37", "U+AB38", "U+AB39", "U+AB3A", "U+AB3B", "U+AB3C", "U+AB3D", "U+AB3E",
     "U+AB3F", "U+AB40", "U+AB41", "U+AB42", "U+AB43", "U+AB44", "U+AB45", "U+AB46", "U+AB47",
     "U+AB48", "U+AB49", "U+AB4A", "U+AB4B", "U+AB4C", "U+AB4D", "U+AB4E", "U+AB4F", "U+AB50",
     "U+AB51", "U+AB52", "U+AB53", "U+AB54", "U+AB55", "U+AB56", "U+AB57", "U+AB58", "U+AB59",
     "U+AB5A", "U+AB60", "U+AB61", "U+AB62", "U+AB63", "U+AB64", "U+AB65", "U+AB66", "U+AB67",
     "U+AB68", "U+AB70", "U+AB71", "U+AB72", "U+AB73", "U+AB74", "U+AB75", "U+AB76", "U+AB77",
     "U+AB78", "U+AB79", "U+AB7A", "U+AB7B", "U+AB7C", "U+AB7D", "U+AB7E", "U+AB7F", "ꮀ", "ꮁ",
     "ꮂ", "ꮃ", "ꮄ", "ꮅ", "ꮆ", "ꮇ", "ꮈ", "ꮉ", "ꮊ", "ꮋ", "ꮌ", "ꮍ", "ꮎ", "ꮏ", "ꮐ", "ꮑ", "ꮒ", "ꮓ",
     "ꮔ", "ꮕ", "ꮖ", "ꮗ", "ꮘ", "ꮙ", "ꮚ", "ꮛ", "ꮜ", "ꮝ", "ꮞ", "ꮟ", "ꮠ", "ꮡ", "ꮢ", "ꮣ", "ꮤ", "ꮥ",
     "ꮦ", "ꮧ", "ꮨ", "ꮩ", "ꮪ", "ꮫ", "ꮬ", "ꮭ", "ꮮ", "ꮯ", "ꮰ", "ꮱ", "ꮲ", "ꮳ", "ꮴ", "ꮵ", "ꮶ", "ꮷ",
     "ꮸ", "ꮹ", "ꮺ", "ꮻ", "ꮼ", "ꮽ", "ꮾ", "ꮿ", "U+FB00", "U+FB01", "U+FB02", "U+FB03", "U+FB04",
     "U+FB05", "U+FB06", "U+FB13", "U+FB14", "U+FB15", "U+FB16", "U+FB17", "U+FF21", "U+FF22",
     "U+FF23", "U+FF24", "U+FF25", "U+FF26", "U+FF27", "U+FF28", "U+FF29", "U+FF2A", "U+FF2B",
     "U+FF2C", "U+FF2D", "U+FF2E", "U+FF2F", "U+FF30", "U+FF31", "U+FF32", "U+FF33", "U+FF34",
     "U+FF35", "U+FF36", "U+FF37", "U+FF38", "U+FF39", "U+FF3A", "U+FF41", "U+FF42", "U+FF43",
     "U+FF44", "U+FF45", "U+FF46", "U+FF47", "U+FF48", "U+FF49", "U+FF4A", "U+FF4B", "U+FF4C",
     "U+FF4D", "U+FF4E", "U+FF4F", "U+FF50", "U+FF51", "U+FF52", "U+FF53", "U+FF54", "U+FF55",
     "U+FF56", "U+FF57", "U+FF58", "U+FF59", "U+FF5A", "U+10400", "U+10401", "U+10402",
     "U+10403", "U+10404", "U+10405", "U+10406", "U+10407", "U+10408", "U+10409", "U+1040A",
     "U+1040B", "U+1040C", "U+1040D", "U+1040E", "U+1040F", "U+10410", "U+10411", "U+10412",
     "U+10413", "U+10414", "U+10415", "U+10416", "U+10417", "U+10418", "U+10419", "U+1041A",
     "U+1041B", "U+1041C", "U+1041D", "U+1041E", "U+1041F", "U+10420", "U+10421", "U+10422",
     "U+10423", "U+10424", "U+10425", "U+10426", "U+10427", "U+10428", "U+10429", "U+1042A",
     "U+1042B", "U+1042C", "U+1042D", "U+1042E", "U+1042F", "U+10430", "U+10431", "U+10432",
     "U+10433", "U+10434", "U+10435", "U+10436", "U+10437", "U+10438", "U+10439", "U+1043A",
     "U+1043B", "U+1043C", "U+1043D", "U+1043E", "U+1043F", "U+10440", "U+10441", "U+10442",
     "U+10443", "U+10444", "U+10445", "U+10446", "U+10447", "U+10448", "U+10449", "U+1044A",
     "U+1044B", "U+1044C", "U+1044D", "U+1044E", "U+1044F", "U+104B0", "U+104B1", "U+104B2",
     "U+104B3", "U+104B4", "U+104B5", "U+104B6", "U+104B7", "U+104B8", "U+104B9", "U+104BA",
     "U+104BB", "U+104BC", "U+104BD", "U+104BE", "U+104BF", "U+104C0", "U+104C1", "U+104C2",
     "U+104C3", "U+104C4", "U+104C5", "U+104C6", "U+104C7", "U+104C8", "U+104C9", "U+104CA",
     "U+104CB", "U+104CC", "U+104CD", "U+104CE", "U+104CF", "U+104D0", "U+104D1", "U+104D2",
     "U+104D3", "U+104D8", "U+104D9", "U+104DA", "U+104DB", "U+104DC", "U+104DD", "U+104DE",
     "U+104DF", "U+104E0", "U+104E1", "U+104E2", "U+104E3", "U+104E4", "U+104E5", "U+104E6",
     "U+104E7", "U+104E8", "U+104E9", "U+104EA", "U+104EB", "U+104EC", "U+104ED", "U+104EE",
     "U+104EF", "U+104F0", "U+104F1", "U+104F2", "U+104F3", "U+104F4", "U+104F5", "U+104F6",
     "U+104F7", "U+104F8", "U+104F9", "U+104FA", "U+104FB", "U+10570", "U+10571", "U+10572",
     "U+10573", "U+10574", "U+10575", "U+10576", "U+10577", "U+10578", "U+10579", "U+1057A",
     "U+1057C", "U+1057D", "U+1057E", "U+1057F", "U+10580", "U+10581", "U+10582", "U+10583",
     "U+10584", "U+10585", "U+10586", "U+10587", "U+10588", "U+10589", "U+1058A", "U+1058C",
     "U+1058D", "U+1058E", "U+1058F", "U+10590", "U+10591", "U+10592", "U+10594", "U+10595",
     "U+10597", "U+10598", "U+10599", "U+1059A", "U+1059B", "U+1059C", "U+1059D", "U+1059E",
     "U+1059F", "U+105A0", "U+105A1", "U+105A3", "U+105A4", "U+105A5", "U+105A6", "U+105A7",
     "U+105A8", "U+105A9", "U+105AA", "U+105AB", "U+105AC", "U+105AD", "U+105AE", "U+105AF",
     "U+105B0", "U+105B1", "U+105B3", "U+105B4", "U+105B5", "U+105B6", "U+105B7", "U+105B8",
     "U+105B9", "U+105BB", "U+105BC", "U+10C80", "U+10C81", "U+10C82", "U+10C83", "U+10C84",
     "U+10C85", "U+10C86", "U+10C87", "U+10C88", "U+10C89", "U+10C8A", "U+10C8B", "U+10C8C",
     "U+10C8D", "U+10C8E", "U+10C8F", "U+10C90", "U+10C91", "U+10C92", "U+10C93", "U+10C94",
     "U+10C95", "U+10C96", "U+10C97", "U+10C98", "U+10C99", "U+10C9A", "U+10C9B", "U+10C9C",
     "U+10C9D", "U+10C9E", "U+10C9F", "U+10CA0", "U+10CA1", "U+10CA2", "U+10CA3", "U+10CA4",
     "U+10CA5", "U+10CA6", "U+10CA7", "U+10CA8", "U+10CA9", "U+10CAA", "U+10CAB", "U+10CAC",
     "U+10CAD", "U+10CAE", "U+10CAF", "U+10CB0", "U+10CB1", "U+10CB2", "U+10CC0", "U+10CC1",
     "U+10CC2", "U+10CC3", "U+10CC4", "U+10CC5", "U+10CC6", "U+10CC7", "U+10CC8", "U+10CC9",
     "U+10CCA", "U+10CCB", "U+10CCC", "U+10CCD", "U+10CCE", "U+10CCF", "U+10CD0", "U+10CD1",
     "U+10CD2", "U+10CD3", "U+10CD4", "U+10CD5", "U+10CD6", "U+10CD7", "U+10CD8", "U+10CD9",
     "U+10CDA", "U+10CDB", "U+10CDC", "U+10CDD", "U+10CDE", "U+10CDF", "U+10CE0", "U+10CE1",
     "U+10CE2", "U+10CE3", "U+10CE4", "U+10CE5", "U+10CE6", "U+10CE7", "U+10CE8", "U+10CE9",
     "U+10CEA", "U+10CEB", "U+10CEC", "U+10CED", "U+10CEE", "U+10CEF", "U+10CF0", "U+10CF1",
     "U+10CF2", "U+118A0", "U+118A1", "U+118A2", "U+118A3", "U+118A4", "U+118A5", "U+118A6",
     "U+118A7", "U+118A8", "U+118A9", "U+118AA", "U+118AB", "U+118AC", "U+118AD", "U+118AE",
     "U+118AF", "U+118B0", "U+118B1", "U+118B2", "U+118B3", "U+118B4", "U+118B5", "U+118B6",
     "U+118B7", "U+118B8", "U+118B9", "U+118BA", "U+118BB", "U+118BC", "U+118BD", "U+118BE",
     "U+118BF", "U+118C0", "U+118C1", "U+118C2", "U+118C3", "U+118C4", "U+118C5", "U+118C6",
     "U+118C7", "U+118C8", "U+118C9", "U+118CA", "U+118CB", "U+118CC", "U+118CD", "U+118CE",
     "U+118CF", "U+118D0", "U+118D1", "U+118D2", "U+118D3", "U+118D4", "U+118D5", "U+118D6",
     "U+118D7", "U+118D8", "U+118D9", "U+118DA", "U+118DB", "U+118DC", "U+118DD", "U+118DE",
     "U+118DF", "U+16E40", "U+16E41", "U+16E42", "U+16E43", "U+16E44", "U+16E45", "U+16E46",
     "U+16E47", "U+16E48", "U+16E49", "U+16E4A", "U+16E4B", "U+16E4C", "U+16E4D", "U+16E4E",
     "U+16E4F", "U+16E50", "U+16E51", "U+16E52", "U+16E53", "U+16E54", "U+16E55", "U+16E56",
     "U+16E57", "U+16E58", "U+16E59", "U+16E5A", "U+16E5B", "U+16E5C", "U+16E5D", "U+16E5E",
     "U+16E5F", "U+16E60", "U+16E61", "U+16E62", "U+16E63", "U+16E64", "U+16E65", "U+16E66",
     "U+16E67", "U+16E68", "U+16E69", "U+16E6A", "U+16E6B", "U+16E6C", "U+16E6D", "U+16E6E",
     "U+16E6F", "U+16E70", "U+16E71", "U+16E72", "U+16E73", "U+16E74", "U+16E75", "U+16E76",
     "U+16E77", "U+16E78", "U+16E79", "U+16E7A", "U+16E7B", "U+16E7C", "U+16E7D", "U+16E7E",
     "U+16E7F", "U+1D400", "U+1D401", "U+1D402", "U+1D403", "U+1D404", "U+1D405", "U+1D406",
     "U+1D407", "U+1D408", "U+1D409", "U+1D40A", "U+1D40B", "U+1D40C", "U+1D40D", "U+1D40E",
     "U+1D40F", "U+1D410", "U+1D411", "U+1D412", "U+1D413", "U+1D414", "U+1D415", "U+1D416",
     "U+1D417", "U+1D418", "U+1D419", "U+1D41A", "U+1D41B", "U+1D41C", "U+1D41D", "U+1D41E",
     "U+1D41F", "U+1D420", "U+1D421", "U+1D422", "U+1D423", "U+1D424", "U+1D425", "U+1D426",
     "U+1D427", "U+1D428", "U+1D429", "U+1D42A", "U+1D42B", "U+1D42C", "U+1D42D", "U+1D42E",
     "U+1D42F", "U+1D430", "U+1D431", "U+1D432", "U+1D433", "U+1D434", "U+1D435", "U+1D436",
     "U+1D437", "U+1D438", "U+1D439", "U+1D43A", "U+1D43B", "U+1D43C", "U+1D43D", "U+1D43E",
     "U+1D43F", "U+1D440", "U+1D441", "U+1D442", "U+1D443", "U+1D444", "U+1D445", "U+1D446",
     "U+1D447", "U+1D448", "U+1D449", "U+1D44A", "U+1D44B", "U+1D44C", "U+1D44D", "U+1D44E",
     "U+1D44F", "U+1D450", "U+1D451", "U+1D452", "U+1D453", "U+1D454", "U+1D456", "U+1D457",
     "U+1D458", "U+1D459", "U+1D45A", "U+1D45B", "U+1D45C", "U+1D45D", "U+1D45E", "U+1D45F",
     "U+1D460", "U+1D461", "U+1D462", "U+1D463", "U+1D464", "U+1D465", "U+1D466", "U+1D467",
     "U+1D468", "U+1D469", "U+1D46A", "U+1D46B", "U+1D46C", "U+1D46D", "U+1D46E", "U+1D46F",
     "U+1D470", "U+1D471", "U+1D472", "U+1D473", "U+1D474", "U+1D475", "U+1D476", "U+1D477",
     "U+1D478", "U+1D479", "U+1D47A", "U+1D47B", "U+1D47C", "U+1D47D", "U+1D47E", "U+1D47F",
     "U+1D480", "U+1D481", "U+1D482", "U+1D483", "U+1D484", "U+1D485", "U+1D486", "U+1D487",
     "U+1D488", "U+1D489", "U+1D48A", "U+1D48B", "U+1D48C", "U+1D48D", "U+1D48E", "U+1D48F",
     "U+1D490", "U+1D491", "U+1D492", "U+1D493", "U+1D494", "U+1D495", "U+1D496", "U+1D497",
     "U+1D498", "U+1D499", "U+1D49A", "U+1D49B", "U+1D49C", "U+1D49E", "U+1D49F", "U+1D4A2",
     "U+1D4A5", "U+1D4A6", "U+1D4A9", "U+1D4AA", "U+1D4AB", "U+1D4AC", "U+1D4AE", "U+1D4AF",
     "U+1D4B0", "U+1D4B1", "U+1D4B2", "U+1D4B3", "U+1D4B4", "U+1D4B5", "U+1D4B6", "U+1D4B7",
     "U+1D4B8", "U+1D4B9", "U+1D4BB", "U+1D4BD", "U+1D4BE", "U+1D4BF", "U+1D4C0", "U+1D4C1",
     "U+1D4C2", "U+1D4C3", "U+1D4C5", "U+1D4C6", "U+1D4C7", "U+1D4C8", "U+1D4C9", "U+1D4CA",
     "U+1D4CB", "U+1D4CC", "U+1D4CD", "U+1D4CE", "U+1D4CF", "U+1D4D0", "U+1D4D1", "U+1D4D2",
     "U+1D4D3", "U+1D4D4", "U+1D4D5", "U+1D4D6", "U+1D4D7", "U+1D4D8", "U+1D4D9", "U+1D4DA",
     "U+1D4DB", "U+1D4DC", "U+1D4DD", "U+1D4DE", "U+1D4DF", "U+1D4E0", "U+1D4E1", "U+1D4E2",
     "U+1D4E3", "U+1D4E4", "U+1D4E5", "U+1D4E6", "U+1D4E7", "U+1D4E8", "U+1D4E9", "U+1D4EA",
     "U+1D4EB", "U+1D4EC", "U+1D4ED", "U+1D4EE", "U+1D4EF", "U+1D4F0", "U+1D4F1", "U+1D4F2",
     "U+1D4F3", "U+1D4F4", "U+1D4F5", "U+1D4F6", "U+1D4F7", "U+1D4F8", "U+1D4F9", "U+1D4FA",
     "U+1D4FB", "U+1D4FC", "U+1D4FD", "U+1D4FE", "U+1D4FF", "U+1D500", "U+1D501", "U+1D502",
     "U+1D503", "U+1D504", "U+1D505", "U+1D507", "U+1D508", "U+1D509", "U+1D50A", "U+1D50D",
     "U+1D50E", "U+1D50F", "U+1D510", "U+1D511", "U+1D512", "U+1D513", "U+1D514", "U+1D516",
     "U+1D517", "U+1D518", "U+1D519", "U+1D51A", "U+1D51B", "U+1D51C", "U+1D51E", "U+1D51F",
     "U+1D520", "U+1D521", "U+1D522", "U+1D523", "U+1D524", "U+1D525", "U+1D526", "U+1D527",
     "U+1D528", "U+1D529", "U+1D52A", "U+1D52B", "U+1D52C", "U+1D52D", "U+1D52E", "U+1D52F",
     "U+1D530", "U+1D531", "U+1D532", "U+1D533", "U+1D534", "U+1D535", "U+1D536", "U+1D537",
     "U+1D538", "U+1D539", "U+1D53B", "U+1D53C", "U+1D53D", "U+1D53E", "U+1D540", "U+1D541",
     "U+1D542", "U+1D543", "U+1D544", "U+1D546", "U+1D54A", "U+1D54B", "U+1D54C", "U+1D54D",
     "U+1D54E", "U+1D54F", "U+1D550", "U+1D552", "U+1D553", "U+1D554", "U+1D555", "U+1D556",
     "U+1D557", "U+1D558", "U+1D559", "U+1D55A", "U+1D55B", "U+1D55C", "U+1D55D", "U+1D55E",
     "U+1D55F", "U+1D560", "U+1D561", "U+1D562", "U+1D563", "U+1D564", "U+1D565", "U+1D566",
     "U+1D567", "U+1D568", "U+1D569", "U+1D56A", "U+1D56B", "U+1D56C", "U+1D56D", "U+1D56E",
     "U+1D56F", "U+1D570", "U+1D571", "U+1D572", "U+1D573", "U+1D574", "U+1D575", "U+1D576",
     "U+1D577", "U+1D578", "U+1D579", "U+1D57A", "U+1D57B", "U+1D57C", "U+1D57D", "U+1D57E",
     "U+1D57F", "U+1D580", "U+1D581", "U+1D582", "U+1D583", "U+1D584", "U+1D585", "U+1D586",
     "U+1D587", "U+1D588", "U+1D589", "U+1D58A", "U+1D58B", "U+1D58C", "U+1D58D", "U+1D58E",
     "U+1D58F", "U+1D590", "U+1D591", "U+1D592", "U+1D593", "U+1D594", "U+1D595", "U+1D596",
     "U+1D597", "U+1D598", "U+1D599", "U+1D59A", "U+1D59B", "U+1D59C", "U+1D59D", "U+1D59E",
     "U+1D59F", "U+1D5A0", "U+1D5A1", "U+1D5A2", "U+1D5A3", "U+1D5A4", "U+1D5A5", "U+1D5A6",
     "U+1D5A7", "U+1D5A8", "U+1D5A9", "U+1D5AA", "U+1D5AB", "U+1D5AC", "U+1D5AD", "U+1D5AE",
     "U+1D5AF", "U+1D5B0", "U+1D5B1", "U+1D5B2", "U+1D5B3", "U+1D5B4", "U+1D5B5", "U+1D5B6",
     "U+1D5B7", "U+1D5B8", "U+1D5B9", "U+1D5BA", "U+1D5BB", "U+1D5BC", "U+1D5BD", "U+1D5BE",
     "U+1D5BF", "U+1D5C0", "U+1D5C1", "U+1D5C2", "U+1D5C3", "U+1D5C4", "U+1D5C5", "U+1D5C6",
     "U+1D5C7", "U+1D5C8", "U+1D5C9", "U+1D5CA", "U+1D5CB", "U+1D5CC", "U+1D5CD", "U+1D5CE",
     "U+1D5CF", "U+1D5D0", "U+1D5D1", "U+1D5D2", "U+1D5D3", "U+1D5D4", "U+1D5D5", "U+1D5D6",
     "U+1D5D7", "U+1D5D8", "U+1D5D9", "U+1D5DA", "U+1D5DB", "U+1D5DC", "U+1D5DD", "U+1D5DE",
     "U+1D5DF", "U+1D5E0", "U+1D5E1", "U+1D5E2", "U+1D5E3", "U+1D5E4", "U+1D5E5", "U+1D5E6",
     "U+1D5E7", "U+1D5E8", "U+1D5E9", "U+1D5EA", "U+1D5EB", "U+1D5EC", "U+1D5ED", "U+1D5EE",
     "U+1D5EF", "U+1D5F0", "U+1D5F1", "U+1D5F2", "U+1D5F3", "U+1D5F4", "U+1D5F5", "U+1D5F6",
     "U+1D5F7", "U+1D5F8", "U+1D5F9", "U+1D5FA", "U+1D5FB", "U+1D5FC", "U+1D5FD", "U+1D5FE",
     "U+1D5FF", "U+1D600", "U+1D601", "U+1D602", "U+1D603", "U+1D604", "U+1D605", "U+1D606",
     "U+1D607", "U+1D608", "U+1D609", "U+1D60A", "U+1D60B", "U+1D60C", "U+1D60D", "U+1D60E",
     "U+1D60F", "U+1D610", "U+1D611", "U+1D612", "U+1D613", "U+1D614", "U+1D615", "U+1D616",
     "U+1D617", "U+1D618", "U+1D619", "U+1D61A", "U+1D61B", "U+1D61C", "U+1D61D", "U+1D61E",
     "U+1D61F", "U+1D620", "U+1D621", "U+1D622", "U+1D623", "U+1D624", "U+1D625", "U+1D626",
     "U+1D627", "U+1D628", "U+1D629", "U+1D62A", "U+1D62B", "U+1D62C", "U+1D62D", "U+1D62E",
     "U+1D62F", "U+1D630", "U+1D631", "U+1D632", "U+1D633", "U+1D634", "U+1D635", "U+1D636",
     "U+1D637", "U+1D638", "U+1D639", "U+1D63A", "U+1D63B", "U+1D63C", "U+1D63D", "U+1D63E",
     "U+1D63F", "U+1D640", "U+1D641", "U+1D642", "U+1D643", "U+1D644", "U+1D645", "U+1D646",
     "U+1D647", "U+1D648", "U+1D649", "U+1D64A", "U+1D64B", "U+1D64C", "U+1D64D", "U+1D64E",
     "U+1D64F", "U+1D650", "U+1D651", "U+1D652", "U+1D653", "U+1D654", "U+1D655", "U+1D656",
     "U+1D657", "U+1D658", "U+1D659", "U+1D65A", "U+1D65B", "U+1D65C", "U+1D65D", "U+1D65E",
     "U+1D65F", "U+1D660", "U+1D661", "U+1D662", "U+1D663", "U+1D664", "U+1D665", "U+1D666",
     "U+1D667", "U+1D668", "U+1D669", "U+1D66A", "U+1D66B", "U+1D66C", "U+1D66D", "U+1D66E",
     "U+1D66F", "U+1D670", "U+1D671", "U+1D672", "U+1D673", "U+1D674", "U+1D675", "U+1D676",
     "U+1D677", "U+1D678", "U+1D679", "U+1D67A", "U+1D67B", "U+1D67C", "U+1D67D", "U+1D67E",
     "U+1D67F", "U+1D680", "U+1D681", "U+1D682", "U+1D683", "U+1D684", "U+1D685", "U+1D686",
     "U+1D687", "U+1D688", "U+1D689", "U+1D68A", "U+1D68B", "U+1D68C", "U+1D68D", "U+1D68E",
     "U+1D68F", "U+1D690", "U+1D691", "U+1D692", "U+1D693", "U+1D694", "U+1D695", "U+1D696",
     "U+1D697", "U+1D698", "U+1D699", "U+1D69A", "U+1D69B", "U+1D69C", "U+1D69D", "U+1D69E",
     "U+1D69F", "U+1D6A0", "U+1D6A1", "U+1D6A2", "U+1D6A3", "U+1D6A4", "U+1D6A5", "U+1D6A8",
     "U+1D6A9", "U+1D6AA", "U+1D6AB", "U+1D6AC", "U+1D6AD", "U+1D6AE", "U+1D6AF", "U+1D6B0",
     "U+1D6B1", "U+1D6B2", "U+1D6B3", "U+1D6B4", "U+1D6B5", "U+1D6B6", "U+1D6B7", "U+1D6B8",
     "U+1D6B9", "U+1D6BA", "U+1D6BB", "U+1D6BC", "U+1D6BD", "U+1D6BE", "U+1D6BF", "U+1D6C0",
     "U+1D6C2", "U+1D6C3", "U+1D6C4", "U+1D6C5", "U+1D6C6", "U+1D6C7", "U+1D6C8", "U+1D6C9",
     "U+1D6CA", "U+1D6CB", "U+1D6CC", "U+1D6CD", "U+1D6CE", "U+1D6CF", "U+1D6D0", "U+1D6D1",
     "U+1D6D2", "U+1D6D3", "U+1D6D4", "U+1D6D5", "U+1D6D6", "U+1D6D7", "U+1D6D8", "U+1D6D9",
     "U+1D6DA", "U+1D6DC", "U+1D6DD", "U+1D6DE", "U+1D6DF", "U+1D6E0", "U+1D6E1", "U+1D6E2",
     "U+1D6E3", "U+1D6E4", "U+1D6E5", "U+1D6E6", "U+1D6E7", "U+1D6E8", "U+1D6E9", "U+1D6EA",
     "U+1D6EB", "U+1D6EC", "U+1D6ED", "U+1D6EE", "U+1D6EF", "U+1D6F0", "U+1D6F1", "U+1D6F2",
     "U+1D6F3", "U+1D6F4", "U+1D6F5", "U+1D6F6", "U+1D6F7", "U+1D6F8", "U+1D6F9", "U+1D6FA",
     "U+1D6FC", "U+1D6FD", "U+1D6FE", "U+1D6FF", "U+1D700", "U+1D701", "U+1D702", "U+1D703",
     "U+1D704", "U+1D705", "U+1D706", "U+1D707", "U+1D708", "U+1D709", "U+1D70A", "U+1D70B",
     "U+1D70C", "U+1D70D", "U+1D70E", "U+1D70F", "U+1D710", "U+1D711", "U+1D712", "U+1D713",
     "U+1D714", "U+1D716", "U+1D717", "U+1D718", "U+1D719", "U+1D71A", "U+1D71B", "U+1D71C",
     "U+1D71D", "U+1D71E", "U+1D71F", "U+1D720", "U+1D721", "U+1D722", "U+1D723", "U+1D724",
     "U+1D725", "U+1D726", "U+1D727", "U+1D728", "U+1D729", "U+1D72A", "U+1D72B", "U+1D72C",
     "U+1D72D", "U+1D72E", "U+1D72F", "U+1D730", "U+1D731", "U+1D732", "U+1D733", "U+1D734",
     "U+1D736", "U+1D737", "U+1D738", "U+1D739", "U+1D73A", "U+1D73B", "U+1D73C", "U+1D73D",
     "U+1D73E", "U+1D73F", "U+1D740", "U+1D741", "U+1D742", "U+1D743", "U+1D744", "U+1D745",
     "U+1D746", "U+1D747", "U+1D748", "U+1D749", "U+1D74A", "U+1D74B", "U+1D74C", "U+1D74D",
     "U+1D74E", "U+1D750", "U+1D751", "U+1D752", "U+1D753", "U+1D754", "U+1D755", "U+1D756",
     "U+1D757", "U+1D758", "U+1D759", "U+1D75A", "U+1D75B", "U+1D75C", "U+1D75D", "U+1D75E",
     "U+1D75F", "U+1D760", "U+1D761", "U+1D762", "U+1D763", "U+1D764", "U+1D765", "U+1D766",
     "U+1D767", "U+1D768", "U+1D769", "U+1D76A", "U+1D76B", "U+1D76C", "U+1D76D", "U+1D76E",
     "U+1D770", "U+1D771", "U+1D772", "U+1D773", "U+1D774", "U+1D775", "U+1D776", "U+1D777",
     "U+1D778", "U+1D779", "U+1D77A", "U+1D77B", "U+1D77C", "U+1D77D", "U+1D77E", "U+1D77F",
     "U+1D780", "U+1D781", "U+1D782", "U+1D783", "U+1D784", "U+1D785", "U+1D786", "U+1D787",
     "U+1D788", "U+1D78A", "U+1D78B", "U+1D78C", "U+1D78D", "U+1D78E", "U+1D78F", "U+1D790",
     "U+1D791", "U+1D792", "U+1D793", "U+1D794", "U+1D795", "U+1D796", "U+1D797", "U+1D798",
     "U+1D799", "U+1D79A", "U+1D79B", "U+1D79C", "U+1D79D", "U+1D79E", "U+1D79F", "U+1D7A0",
     "U+1D7A1", "U+1D7A2", "U+1D7A3", "U+1D7A4", "U+1D7A5", "U+1D7A6", "U+1D7A7", "U+1D7A8",
     "U+1D7AA", "U+1D7AB", "U+1D7AC", "U+1D7AD", "U+1D7AE", "U+1D7AF", "U+1D7B0", "U+1D7B1",
     "U+1D7B2", "U+1D7B3", "U+1D7B4", "U+1D7B5", "U+1D7B6", "U+1D7B7", "U+1D7B8", "U+1D7B9",
     "U+1D7BA", "U+1D7BB", "U+1D7BC", "U+1D7BD", "U+1D7BE", "U+1D7BF", "U+1D7C0", "U+1D7C1",
     "U+1D7C2", "U+1D7C4", "U+1D7C5", "U+1D7C6", "U+1D7C7", "U+1D7C8", "U+1D7C9", "U+1D7CA",
     "U+1D7CB", "U+1DF00", "U+1DF01", "U+1DF02", "U+1DF03", "U+1DF04", "U+1DF05", "U+1DF06",
     "U+1DF07", "U+1DF08", "U+1DF09", "U+1DF0B", "U+1DF0C", "U+1DF0D", "U+1DF0E", "U+1DF0F",
     "U+1DF10", "U+1DF11", "U+1DF12", "U+1DF13", "U+1DF14", "U+1DF15", "U+1DF16", "U+1DF17",
     "U+1DF18", "U+1DF19", "U+1DF1A", "U+1DF1B", "U+1DF1C", "U+1DF1D", "U+1DF1E", "U+1E900",
     "U+1E901", "U+1E902", "U+1E903", "U+1E904", "U+1E905", "U+1E906", "U+1E907", "U+1E908",
     "U+1E909", "U+1E90A", "U+1E90B", "U+1E90C", "U+1E90D", "U+1E90E", "U+1E90F", "U+1E910",
     "U+1E911", "U+1E912", "U+1E913", "U+1E914", "U+1E915", "U+1E916", "U+1E917", "U+1E918",
     "U+1E919", "U+1E91A", "U+1E91B", "U+1E91C", "U+1E91D", "U+1E91E", "U+1E91F", "U+1E920",
     "U+1E921", "U+1E922", "U+1E923", "U+1E924", "U+1E925", "U+1E926", "U+1E927", "U+1E928",
     "U+1E929", "U+1E92A", "U+1E92B", "U+1E92C", "U+1E92D", "U+1E92E", "U+1E92F", "U+1E930",
     "U+1E931", "U+1E932", "U+1E933", "U+1E934", "U+1E935", "U+1E936", "U+1E937", "U+1E938",
     "U+1E939", "U+1E93A", "U+1E93B", "U+1E93C", "U+1E93D", "U+1E93E", "U+1E93F", "U+1E940",
     "U+1E941", "U+1E942", "U+1E943", "U+1F130", "U+1F131", "U+1F132", "U+1F133", "U+1F134",
     "U+1F135", "U+1F136", "U+1F137", "U+1F138", "U+1F139", "U+1F13A", "U+1F13B", "U+1F13C",
     "U+1F13D", "U+1F13E", "U+1F13F", "U+1F140", "U+1F141", "U+1F142", "U+1F143", "U+1F144",
     "U+1F145", "U+1F146", "U+1F147", "U+1F148", "U+1F149", "U+1F150", "U+1F151", "U+1F152",
     "U+1F153", "U+1F154", "U+1F155", "U+1F156", "U+1F157", "U+1F158", "U+1F159", "U+1F15A",
     "U+1F15B", "U+1F15C", "U+1F15D", "U+1F15E", "U+1F15F", "U+1F160", "U+1F161", "U+1F162",
     "U+1F163", "U+1F164", "U+1F165", "U+1F166", "U+1F167", "U+1F168", "U+1F169", "U+1F170",
     "U+1F171", "U+1F172", "U+1F173", "U+1F174", "U+1F175", "U+1F176", "U+1F177", "U+1F178",
     "U+1F179", "U+1F17A", "U+1F17B", "U+1F17C", "U+1F17D", "U+1F17E", "U+1F17F", "U+1F180",
     "U+1F181", "U+1F182", "U+1F183", "U+1F184", "U+1F185", "U+1F186", "U+1F187", "U+1F188",
     "U+1F189"}

\* str.lower: each character by its case mapping; a capital sigma becomes
\* the final sigma when a cased letter comes before it and none after it,
\* case-ignorable characters skipped, and the capital I with a dot becomes
\* an i and a combining dot
lower(s) ==
    Flatten([i \in 1..Len(s) |->
        IF s[i] = "Σ"
        THEN IF /\ \E j \in 1..(i - 1) :
                     s[j] \in Cased /\ \A k \in (j + 1)..(i - 1) : s[k] \in CaseIgnorable
                /\ ~\E j \in (i + 1)..Len(s) :
                     s[j] \in Cased /\ \A k \in (i + 1)..(j - 1) : s[k] \in CaseIgnorable
             THEN <<"ς">>
             ELSE <<"σ">>
        ELSE IF s[i] = "U+0130" THEN <<"i", "U+0307">>
        ELSE IF s[i] \in DOMAIN ToLower THEN <<ToLower[s[i]]>>
        ELSE <<s[i]>>])

\* the characters str.split() separates on, those str.isspace() is true of
Whitespace ==
    {"\t", "\n", "", "\f", "\r", "", "", "", "", " ", "", " ", " ", "U+2000", "U+2001",
     "U+2002", "U+2003", "U+2004", "U+2005", "U+2006", "U+2007", "U+2008", "U+2009", "U+200A",
     "U+2028", "U+2029", "U+202F", "U+205F", "U+3000"}

\* str.split(): the maximal runs of non-whitespace characters
RECURSIVE SplitFrom(_, _, _)
SplitFrom(s, word, acc) ==
    IF s = <<>> THEN (IF word = <<>> THEN acc ELSE Append(acc, word))
    ELSE IF Head(s) \in Whitespace
    THEN SplitFrom(Tail(s), <<>>, IF word = <<>> THEN acc ELSE Append(acc, word))
    ELSE SplitFrom(Tail(s), Append(word, Head(s)), acc)

split(s) == SplitFrom(s, <<>>, <<>>)

\* variant: a substitution costs 1
RECURSIVE LevRow_UnitSubstitution(_, _, _, _)
LevRow_UnitSubstitution(c1, s2, prevrow, row) ==
    IF Len(row) = Len(s2) + 1 THEN row
    ELSE LET i2 == Len(row)
             matchscore == IF c1 = s2[i2] THEN 0 ELSE 1
         IN  LevRow_UnitSubstitution(c1, s2, prevrow,
                    Append(row, Min2(row[i2] + 1, Min2(prevrow[i2 + 1] + 1, prevrow[i2] + matchscore))))

\* lines 17-20: the row of character c1, grown from row[0] = i1; column j is
\* kept at index j + 1
RECURSIVE LevRow(_, _, _, _)
LevRow(c1, s2, prevrow, row) ==
    IF Len(row) = Len(s2) + 1 THEN row
    ELSE LET i2 == Len(row)
             matchscore == IF c1 = s2[i2] THEN 0 ELSE 2
         IN  LevRow(c1, s2, prevrow,
                    Append(row, Min2(row[i2] + 1, Min2(prevrow[i2 + 1] + 1, prevrow[i2] + matchscore))))

RECURSIVE LevRows(_, _, _, _)
LevRows(s1, s2, i1, prevrow) ==
    IF i1 > Len(s1) THEN prevrow
    ELSE LevRows(s1, s2, i1 + 1, LevRow(s1[i1], s2, prevrow, <<i1>>))

levenshtein(s1, s2) ==
    LevRows(s1, s2, 1, [j \in 1..(Len(s2) + 1) |-> j - 1])[Len(s2) + 1]

\* approx_score: [err, v].  None has no lower(), s1 being lowered first;
\* min() of no word raises.
approx_score(s1, s2) ==
    IF s1 = None \/ s2 = None THEN [err |-> "AttributeError", v |-> 0]
    ELSE LET sum_min(l1, l2) ==
                 IF l1 # <<>> /\ l2 = <<>> THEN [err |-> "ValueError", v |-> 0]
                 ELSE [err |-> "",
                       v |-> SumSeq([i \in 1..Len(l1) |->
                                MinOf({levenshtein(l1[i], l2[j]) : j \in 1..Len(l2)})])]
         IN  sum_min(split(lower(s1)), split(lower(s2)))

\* approx_match: min(haystack, key=...): the first hay of minimal score;
\* [err, i] with i the index of that hay
approx_match(nail, haystack) ==
    LET score(i) == approx_score(nail, haystack[i])
        bad == {i \in 1..Len(haystack) : score(i).err # ""}
    IN  IF haystack = <<>> THEN [err |-> "ValueError", i |-> 0]
        ELSE IF bad # {} THEN [err |-> score(MinOf(bad)).err, i |-> 0]
        ELSE [err |-> "",
              i |-> MinOf({i \in 1..Len(haystack) :
                             \A j \in 1..Len(haystack) : score(i).v <= score(j).v})]

(***************************************************************************)
(* workfile.py, as workfile_to_invoice.py uses it.                         *)
(***************************************************************************)
\* Section.title: the title comment without one leading space
Section_title(h, ent) ==
    LET c == title(h, ent)
    IN  IF c = None THEN None
        ELSE IF c # <<>> /\ c[1] = " " THEN Tail(c)
        ELSE c

\* WorkfileFiltered.sections of workfile.py: the indexes of the sections kept
sections(h, secs, start, end, ttl) ==
    SelectSeq([i \in 1..Len(secs) |-> i],
              LAMBDA i :
                /\ FullDates(h, secs[i]) # {}
                /\ ~(ttl # None /\ Section_title(h, secs[i]) # ttl)
                /\ first_date(h, secs[i]) < end
                /\ last_date(h, secs[i]) >= start)

\* filter_sections
filter_sections(h, secs, day, ttl) ==
    sections(h, secs, day - RecentDays, day + AheadDays, ttl)

Found(outcome, section) == [outcome |-> outcome, section |-> section]

\* lines 83-93: the approximate match
find_section_approx(h, secs, day, ttl) ==
    LET wff == filter_sections(h, secs, day, None)
        titles == [i \in 1..Len(wff) |-> Section_title(h, secs[wff[i]])]
        best == approx_match(ttl, titles)
        actual_title == titles[best.i]
        again == filter_sections(h, secs, day, actual_title)
    IN  IF best.err # "" THEN Found(best.err, 0)
        ELSE IF Len(actual_title) = 0 THEN Found("ZeroDivisionError", 0)
        ELSE IF 10 * approx_score(ttl, actual_title).v < Len(actual_title)
        THEN Found("approx", again[Len(again)])
        ELSE Found("SectionNameError", 0)

\* find_section: the index of the section returned, or the exception raised
find_section(h, secs, day, ttl) ==
    LET wff == filter_sections(h, secs, day, ttl)
    IN  IF Len(wff) = 1 THEN Found("exact", wff[1])
        ELSE IF Len(wff) > 1 THEN Found("last", wff[Len(wff)])
        ELSE find_section_approx(h, secs, day, ttl)

(***************************************************************************)
(* The inputs: a workfile as read_workfile builds it, and the sections     *)
(* ics_to_workfile derives from a calendar.                                *)
(***************************************************************************)
IcsEnd == IcsStart + 7                   \* the Monday after
DIn == IcsStart                          \* a date of the planning
DNear == IcsStart - 50                   \* inside the widened search window, before the planning
DOld == IcsStart - SearchMargin - 7      \* before the widened search window
DFar == IcsEnd + SearchMargin + 101      \* after the widened search window
Rates == {50, IcsRate}

TitleA == <<" ", "m", "a", "t", "h">>
TitleB == <<" ", "a", "r", "t">>
TitleC == <<" ", "M", "a", "t", "h">>
NoteChars == <<"p", "q", "r", "s", "u", "v", "w", "x">>

CoreKeys == (1..MaxHours) \X Rates

\* the dated lines of a section, each with its own end-of-line comment
Lines(core, d) ==
    [i \in 1..Len(core) |-> WorkfileEntryFull(d, core[i][1], core[i][2], <<NoteChars[i]>>, 2)]

Extra(d) == WorkfileEntryFull(d, 1, 50, <<"e">>, 2)

\* two equal lines at the rate of the planning
Pair(d, hours) ==
    <<WorkfileEntryFull(d, hours, IcsRate, <<"y">>, 2),
      WorkfileEntryFull(d, hours, IcsRate, <<"z">>, 2)>>

Layouts ==
    {"plain", "note", "near", "pair1", "pair2", "other", "several", "far", "straddle",
     "renamed", "respelt", "between"}

Ledger(layout, core) ==
    LET A == WorkfileEntryComment(TitleA)
        B == WorkfileEntryComment(TitleB)
        body == Lines(core, DIn)
    IN  CASE layout = "plain" -> << <<A>> \o body >>
          [] layout = "note" ->
                << <<A>> \o SubSeq(body, 1, Min2(1, Len(body)))
                         \o <<WorkfileEntryComment(<<" ", "n">>)>>
                         \o SubSeq(body, 2, Len(body)) >>
          [] layout = "near" -> << <<A>> \o body \o <<Extra(DNear)>> >>
          [] layout = "pair1" -> << <<A>> \o body \o Pair(DIn, 1) >>
          [] layout = "pair2" -> << <<A>> \o body \o Pair(DIn, 2) >>
          [] layout = "other" -> << <<B, Extra(DIn)>>, <<A>> \o body >>
          [] layout = "several" -> << <<A>> \o body, <<A, Extra(DIn)>> >>
          [] layout = "far" -> << <<A>> \o Lines(core, DFar) >>
          [] layout = "straddle" -> << <<A, Extra(DOld)>> \o body \o <<Extra(DFar)>> >>
          [] layout = "renamed" -> << <<B>> \o body >>
          [] layout = "respelt" -> << <<WorkfileEntryComment(TitleC)>> \o body >>
          [] layout = "between" ->
                << <<A>> \o body \o <<WorkfileEntryComment(<<" ", "n">>), Extra(DIn)>> >>

Ledgers ==
    {Ledger(l, core) : l \in {"plain", "between"}, core \in SeqsUpTo(CoreKeys, MaxBody)}
    \cup {Ledger(l, core) : l \in Layouts, core \in SeqsUpTo(CoreKeys, MaxBody - 1)}

\* the sections ics_to_workfile derives from a planning: a title and one
\* entry per date of the course, in the order of the dates, with the hours of
\* the day summed, at the rate of 80, without comment.  Here up to MaxNew
\* consecutive days from DIn of up to MaxHours hours, and a longer first day.
NewSections ==
    {<<WorkfileEntryComment(TitleA)>>
        \o [i \in 1..Len(hs) |-> WorkfileEntryFull(DIn + i - 1, hs[i], IcsRate, None, 1)] :
     hs \in (SeqsUpTo(1..MaxHours, MaxNew) \ {<<>>})
                \cup {<<MaxHours + 2>> \o rest : rest \in SeqsUpTo(1..MaxHours, MaxNew - 1)}}

\* object ids of the sections of a ledger laid out in the heap one after the other
RECURSIVE Refs(_, _)
Refs(ledger, base) ==
    IF ledger = <<>> THEN <<>>
    ELSE <<[i \in 1..Len(Head(ledger)) |-> base + i]>>
            \o Refs(Tail(ledger), base + Len(Head(ledger)))

\* find_section has not run
NoFound == [outcome |-> "none", section |-> 0]

\* approxmatch.py has not been called
NoRet == [err |-> "none", v |-> 0]
TextIdle == args = <<>> /\ ret = NoRet

\* the unit of every item made of a workfile entry
Heures == <<"h", "e", "u", "r", "e", "s">>

\* no invoice has been read
NoInvoice == [items |-> <<>>, invdate |-> 0]
NoInvObs == [outcome |-> "none"]
InvoiceIdle == inv = NoInvoice /\ invobs = NoInvObs

\* no file is looked at: files gives the content of the file the command
\* line names (orig), of the one with ".new" appended and of the one with
\* ".bak" appended, a sequence of the pieces written, or Absent
Absent == <<"<absent>">>
NoFiles == [orig |-> Absent, new |-> Absent, bak |-> Absent]
NoOpts == [flow |-> "none"]
FilesIdle == files = NoFiles /\ opts = NoOpts

NoObs == Result(<<>>, <<>>, "none", 0, [add |-> <<>>, rem |-> <<>>], <<>>, <<>>, <<>>,
                    [add |-> <<>>, rem |-> <<>>])

Init ==
    \E ledger \in Ledgers :
        /\ heap = Flatten(ledger)
        /\ wf = Refs(ledger, 0)
        /\ newsec = <<>>
        /\ icsstart = IcsStart
        /\ icsend = IcsEnd
        /\ pc = "read"
        /\ obs = NoObs
        /\ today = Today
        /\ query = None
        /\ found = NoFound
        /\ TextIdle /\ InvoiceIdle /\ FilesIdle

\* a call of update_course; hit ranges over the lookups the call can make by
\* a key with a stale hash, at most one for each key-equal repetition in ns:
\* a key is written after its count was decremented, and is looked up again
\* only while its count is positive
Call(ns, h) ==
    \E hit \in [1..(Len(full_entries(h, ns)) - Len(Counter(h, full_entries(h, ns)))) -> BOOLEAN] :
        LET r == update_course(h, wf, ns, icsstart, icsend, hit)
        IN  /\ heap' = r.h
            /\ wf' = r.wf
            /\ newsec' = ns
            /\ obs' = [r EXCEPT !.h = h, !.wf = wf]

\* main, lines 540-541: update_course(wf, sec, icsstart, icsend)
UpdateCourse ==
    /\ pc = "read"
    /\ \E sec \in NewSections :
          Call([i \in 1..Len(sec) |-> Len(heap) + i], heap \o sec)
    /\ pc' = "updated"
    /\ UNCHANGED <<icsstart, icsend, today, query, found>>
    /\ UNCHANGED <<textVars, invoiceVars, fileVars>>

\* a second run over the same planning: update_course is called with a new
\* section equal to the one first passed, on the ledger the first call left
UpdateCourseAgain ==
    /\ pc = "updated"
    /\ obs.outcome \notin {"RuntimeError", "ValueError"}
    /\ Call([i \in 1..Len(newsec) |-> Len(heap) + i],
            heap \o [i \in 1..Len(newsec) |-> obs.h[newsec[i]]])
    /\ pc' = "repeated"
    /\ UNCHANGED <<icsstart, icsend, today, query, found>>
    /\ UNCHANGED <<textVars, invoiceVars, fileVars>>

Next == UpdateCourse \/ UpdateCourseAgain

Spec == Init /\ [][Next]_vars

(***************************************************************************)
(* The invoice lookup: main of workfile_to_invoice.py reads a workfile and *)
(* calls find_section with the --section-title argument.                   *)
(***************************************************************************)
DRecent == Today - RecentDays            \* the first day of the lookup window
DBefore == Today - RecentDays - 1        \* the day before it
DAhead == Today + AheadDays              \* the first day after the lookup window

FindTitles ==
    [math |-> <<" ", "m", "a", "t", "h">>,
     bare |-> <<"m", "a", "t", "h">>,
     caps |-> <<" ", "M", "a", "t", "h">>,
     art |-> <<" ", "a", "r", "t">>,
     long |-> <<" ", "m", "a", "t", "h", "e", "m", "a", "t", "i", "c", "s">>,
     ten |-> <<" ", "m", "a", "t", "h", "e", "m", "a", "t", "i", "c">>,
     blank |-> <<" ">>]

Dated(d, hours) == WorkfileEntryFull(d, hours, 50, None, None)

\* the kinds of section a ledger is made of
FindSections ==
    {<<WorkfileEntryComment(FindTitles.math), Dated(Today, 1)>>,
     <<WorkfileEntryComment(FindTitles.math), Dated(Today, 2), Dated(DRecent, 1)>>,
     <<WorkfileEntryComment(FindTitles.bare), Dated(Today, 3)>>,
     <<WorkfileEntryComment(FindTitles.math), Dated(DBefore, 1)>>,
     <<WorkfileEntryComment(FindTitles.math), Dated(DBefore, 1), Dated(DAhead, 1)>>,
     <<WorkfileEntryComment(FindTitles.math)>>,
     <<WorkfileEntryComment(FindTitles.caps), Dated(Today, 1)>>,
     <<WorkfileEntryComment(FindTitles.art), Dated(Today, 1)>>,
     <<WorkfileEntryComment(FindTitles.long), Dated(Today, 1)>>,
     <<WorkfileEntryComment(FindTitles.ten), Dated(Today, 1)>>,
     <<WorkfileEntryComment(FindTitles.blank), Dated(Today, 1)>>,
     <<Dated(Today, 1)>>}

FindLedgers == SeqsUpTo(FindSections, MaxSections)

\* the --section-title arguments
Queries ==
    {<<"m", "a", "t", "h">>,
     <<"M", "a", "t", "h">>,
     <<"m", "a", "t", "h", "e", "m", "a", "t", "i", "c">>,
     <<"m", "a", "t", "h", "e", "m", "a", "t", "i">>,
     <<"a", "r", "t", " ", "x">>,
     <<" ">>,
     <<>>}

InitFind ==
    \E ledger \in FindLedgers, q \in Queries :
        /\ heap = Flatten(ledger)
        /\ wf = Refs(ledger, 0)
        /\ newsec = <<>>
        /\ icsstart = IcsStart
        /\ icsend = IcsEnd
        /\ pc = "lookup"
        /\ obs = NoObs
        /\ today = Today
        /\ query = q
        /\ found = NoFound
        /\ TextIdle /\ InvoiceIdle /\ FilesIdle

\* main, line 355: sec = find_section(wf, section_title)
FindSection ==
    /\ pc = "lookup"
    /\ found' = find_section(heap, wf, today, query)
    /\ pc' = "found"
    /\ UNCHANGED <<heap, wf, newsec, icsstart, icsend, obs, today, query>>
    /\ UNCHANGED <<textVars, invoiceVars, fileVars>>

NextFind == FindSection

SpecFind == InitFind /\ [][NextFind]_vars

(***************************************************************************)
(* approxmatch.py called on its own: levenshtein on two words,             *)
(* approx_score on two texts, approx_match on a text and a list of texts.  *)
(***************************************************************************)
Alphabet == {"a", "b"}

\* the words of at most MaxWord characters
WordsIn == SeqsUpTo(Alphabet, MaxWord)

\* texts with no word, one word, several words, capitals, accented capitals
\* and runs of whitespace
Texts ==
    {<<>>,
     <<" ">>,
     <<"a">>,
     <<"A", "b">>,
     <<"b", "a">>,
     <<" ", "a", "b", " ", " ", "b">>,
     <<"b", "\t", "A", "\n">>,
     <<"É", "\r", "é", " ", "a">>,
     <<"a", "a", " ", "b", "b">>}

InitText ==
    /\ heap = <<>>
    /\ wf = <<>>
    /\ newsec = <<>>
    /\ icsstart = IcsStart
    /\ icsend = IcsEnd
    /\ pc = "text"
    /\ obs = NoObs
    /\ today = Today
    /\ query = None
    /\ found = NoFound
    /\ args \in (WordsIn \X WordsIn) \cup (Texts \X Texts)
                \cup {<<nail>> \o hay : nail \in Texts, hay \in SeqsUpTo(Texts, MaxHay)}
    /\ ret = NoRet
    /\ InvoiceIdle /\ FilesIdle

\* levenshtein(s1, s2) on two words
Levenshtein ==
    /\ pc = "text" /\ Len(args) = 2
    /\ args[1] \in WordsIn /\ args[2] \in WordsIn
    /\ ret' = [err |-> "", v |-> levenshtein(args[1], args[2])]
    /\ pc' = "levenshtein"
    /\ UNCHANGED <<args, ledgerVars, invoiceVars, fileVars>>

\* approx_score(s1, s2)
ApproxScore ==
    /\ pc = "text" /\ Len(args) = 2
    /\ ret' = approx_score(args[1], args[2])
    /\ pc' = "approx_score"
    /\ UNCHANGED <<args, ledgerVars, invoiceVars, fileVars>>

\* approx_match(nail, haystack) with nail = args[1] and haystack the rest;
\* ret.v is the position in haystack of the text returned
ApproxMatch ==
    /\ pc = "text" /\ Len(args) >= 1
    /\ LET m == approx_match(Head(args), Tail(args))
       IN  ret' = [err |-> m.err, v |-> m.i]
    /\ pc' = "approx_match"
    /\ UNCHANGED <<args, ledgerVars, invoiceVars, fileVars>>

NextText == Levenshtein \/ ApproxScore \/ ApproxMatch

SpecText == InitText /\ [][NextText]_vars

(***************************************************************************)
(* invoice.py and update_invoice of workfile_to_invoice.py.  An Item is a  *)
(* frozen dataclass, a value; a Counter of items is the list of its        *)
(* [key, n] in insertion order.                                            *)
(***************************************************************************)
Item(desc, date, time, unit, rate, vat) ==
    [desc |-> desc, date |-> date, time |-> time, unit |-> unit, rate |-> rate, vat |-> vat]

\* dataclasses.fields(ref): every field of Item is compared
Fields == {"desc", "date", "time", "unit", "rate", "vat"}

\* the characters of the texts in the order of their code points
Chars ==
    <<"\t", "\n", " ",
      "A", "B", "C", "D", "E", "F", "G", "H", "I", "J", "K", "L", "M",
      "N", "O", "P", "Q", "R", "S", "T", "U", "V", "W", "X", "Y", "Z",
      "a", "b", "c", "d", "e", "f", "g", "h", "i", "j", "k", "l", "m",
      "n", "o", "p", "q", "r", "s", "t", "u", "v", "w", "x", "y", "z">>

Ord(c) == CHOOSE i \in 1..Len(Chars) : Chars[i] = c

\* str.__lt__: the first character that differs decides, a proper prefix is less
TextLt(s, t) ==
    \E k \in 1..(Min2(Len(s), Len(t)) + 1) :
        /\ \A j \in 1..(k - 1) : s[j] = t[j]
        /\ IF k > Len(s) THEN k <= Len(t)
           ELSE k <= Len(t) /\ Ord(s[k]) < Ord(t[k])

\* Item.__lt__ of dataclass(order=True): the tuples of fields compared
ItemLt(x, y) ==
    IF x.desc # y.desc THEN TextLt(x.desc, y.desc)
    ELSE IF x.date # y.date THEN x.date < y.date
    ELSE IF x.time # y.time THEN x.time < y.time
    ELSE IF x.unit # y.unit THEN TextLt(x.unit, y.unit)
    ELSE IF x.rate # y.rate THEN x.rate < y.rate
    ELSE x.vat < y.vat

\* sorted() of a list of items: stable insertion
RECURSIVE ItemInsert(_, _)
ItemInsert(s, x) ==
    IF s = <<>> THEN <<x>>
    ELSE IF ItemLt(x, Head(s)) THEN <<x>> \o s
    ELSE <<Head(s)>> \o ItemInsert(Tail(s), x)

RECURSIVE ItemSorted(_)
ItemSorted(s) ==
    IF s = <<>> THEN <<>> ELSE ItemInsert(ItemSorted(SubSeq(s, 1, Len(s) - 1)), s[Len(s)])

\* c[x], 0 for a missing key
CountOf(c, x) ==
    IF \E i \in 1..Len(c) : c[i].key = x
    THEN c[CHOOSE i \in 1..Len(c) : c[i].key = x].n
    ELSE 0

\* c[x] += 1
CounterInc(c, x) ==
    IF \E i \in 1..Len(c) : c[i].key = x
    THEN [c EXCEPT ![CHOOSE i \in 1..Len(c) : c[i].key = x].n = @ + 1]
    ELSE Append(c, [key |-> x, n |-> 1])

\* collections.Counter(items)
RECURSIVE ItemCounter(_)
ItemCounter(items) ==
    IF items = <<>> THEN <<>>
    ELSE CounterInc(ItemCounter(SubSeq(items, 1, Len(items) - 1)), items[Len(items)])

\* Counter.__sub__: the positive differences, then the keys only b has
\* with a negative count
Counter_sub(a, b) ==
    SelectSeq([i \in 1..Len(a) |-> [key |-> a[i].key, n |-> a[i].n - CountOf(b, a[i].key)]],
              LAMBDA it : it.n > 0)
        \o SelectSeq([i \in 1..Len(b) |-> [key |-> b[i].key, n |-> 0 - b[i].n]],
                     LAMBDA it : it.n > 0 /\ \A j \in 1..Len(a) : a[j].key # it.key)

\* Counter.__add__: the positive sums, then the keys only b has with a
\* positive count
Counter_add(a, b) ==
    SelectSeq([i \in 1..Len(a) |-> [key |-> a[i].key, n |-> a[i].n + CountOf(b, a[i].key)]],
              LAMBDA it : it.n > 0)
        \o SelectSeq(b, LAMBDA it : it.n > 0 /\ \A j \in 1..Len(a) : a[j].key # it.key)

\* partial_match_dataclass(ref, data, **include_fields): [err, list].  Every
\* field of Item has compare=True, so no keyword is popped: keywords all
\* False take their fields out, all True keep only theirs, and a mix of True
\* and False raises NotImplementedError.
partial_match_dataclass(ref, data, include_fields) ==
    LET given == DOMAIN include_fields
    IN  IF \A f \in given : ~include_fields[f]
        THEN [err |-> "",
              list |-> SelectSeq(data, LAMBDA d : \A f \in Fields \ given : ref[f] = d[f])]
        ELSE IF \A f \in given : include_fields[f]
        THEN [err |-> "",
              list |-> SelectSeq(data, LAMBDA d : \A f \in Fields \cap given : ref[f] = d[f])]
        ELSE [err |-> "NotImplementedError", list |-> <<>>]

\* approx_score(ref.desc, m.desc) / len(ref.desc) < 0.1, or what it raises
DescMatches(ref, m) ==
    LET score == approx_score(ref.desc, m.desc)
    IN  IF score.err # "" THEN [err |-> score.err, ok |-> FALSE]
        ELSE IF Len(ref.desc) = 0 THEN [err |-> "ZeroDivisionError", ok |-> FALSE]
        ELSE [err |-> "", ok |-> 10 * score.v < Len(ref.desc)]

\* match_items(ref, items, time=False): [err, list]
match_items(ref, items) ==
    LET partial == partial_match_dataclass(ref, items, [f \in {"desc", "time"} |-> FALSE])
        matches == partial.list
        bad == {i \in 1..Len(matches) : DescMatches(ref, matches[i]).err # ""}
    IN  IF partial.err # "" THEN partial
        ELSE IF bad # {} THEN [err |-> DescMatches(ref, matches[MinOf(bad)]).err, list |-> <<>>]
        ELSE [err |-> "", list |-> SelectSeq(matches, LAMBDA m : DescMatches(ref, m).ok)]

TotalTime(items) == SumSeq([i \in 1..Len(items) |-> items[i].time])

\* The passes work on a record st: added, removed, curitems, the exception
\* raised if any, and the branches taken (log): for each, the added item a,
\* its matches, and the item put into curitems if any.
Taken(st, kind, a, matches, put) ==
    Append(st.log, [kind |-> kind, a |-> a, matches |-> matches, put |-> put])

\* lines 143-152: the body of the loop of _update_invoice_ignore_sum_match
SumMatchItem(st, a) ==
    LET m == match_items(a, elements(st.rem))
    IN  IF m.err # "" THEN [st EXCEPT !.err = m.err]
        ELSE IF TotalTime(m.list) = a.time
        THEN [st EXCEPT !.rem = CounterDecAll(@, m.list),
                        !.add = CounterDec(@, a),
                        !.log = Taken(st, "sum", a, m.list, <<>>)]
        ELSE st

\* variant: the replacing item takes the description of the new item
FixSingleItem_NewDesc(st, a, m) ==
    LET newitem == Item(a.desc, m.date, a.time, m.unit, m.rate, m.vat)
    IN  [st EXCEPT !.rem = CounterDec(@, m),
                   !.add = CounterDec(@, a),
                   !.cur = CounterInc(CounterDec(@, m), newitem),
                   !.log = Taken(st, "single", a, <<m>>, <<newitem>>)]

\* lines 166-175: one match, replaced by an item with the time of a
FixSingleItem(st, a, m) ==
    LET newitem == Item(m.desc, m.date, a.time, m.unit, m.rate, m.vat)
    IN  [st EXCEPT !.rem = CounterDec(@, m),
                   !.add = CounterDec(@, a),
                   !.cur = CounterInc(CounterDec(@, m), newitem),
                   !.log = Taken(st, "single", a, <<m>>, <<newitem>>)]

\* lines 177-189: several matches that fall short; an item is added for the
\* remaining time
FixShortfallItem(st, a, matches) ==
    LET remtime == a.time - TotalTime(matches)
        newitem == Item(matches[1].desc, a.date, remtime, a.unit, a.rate, a.vat)
    IN  [st EXCEPT !.rem = CounterDecAll(@, matches),
                   !.add = CounterDec(@, a),
                   !.cur = CounterInc(@, newitem),
                   !.log = Taken(st, "shortfall", a, matches, <<newitem>>)]

\* lines 163-195: the body of the loop of _update_invoice_fix_partial
FixPartialItem(st, a) ==
    LET m == match_items(a, elements(st.rem))
        total_time == TotalTime(m.list)
    IN  IF m.err # "" THEN [st EXCEPT !.err = m.err]
        ELSE IF Len(m.list) = 1 THEN FixSingleItem(st, a, m.list[1])
        ELSE IF Len(m.list) > 1 /\ total_time < a.time THEN FixShortfallItem(st, a, m.list)
        ELSE IF Len(m.list) > 1 /\ total_time > a.time
        THEN [st EXCEPT !.log = Taken(st, "excess", a, m.list, <<>>)]
        ELSE st

\* _update_invoice_ignore_sum_match, for a in added.elements(): the loop only
\* changes the count of the key it is at, after the iterator has read it
RECURSIVE SumMatchLoop(_, _)
SumMatchLoop(st, els) ==
    IF els = <<>> \/ st.err # "" THEN st
    ELSE SumMatchLoop(SumMatchItem(st, Head(els)), Tail(els))

update_invoice_ignore_sum_match(st) == SumMatchLoop(st, elements(st.add))

\* _update_invoice_fix_partial, for a in added.elements()
RECURSIVE FixPartialLoop(_, _)
FixPartialLoop(st, els) ==
    IF els = <<>> \/ st.err # "" THEN st
    ELSE FixPartialLoop(FixPartialItem(st, Head(els)), Tail(els))

update_invoice_fix_partial(st) == FixPartialLoop(st, elements(st.add))

\* lines 204-207: the items of the entries of the section
NewItems(h, sec) ==
    LET es == full_entries(h, sec)
    IN  [i \in 1..Len(es) |->
            Item(Section_title(h, sec), h[es[i]].date, h[es[i]].hours, Heures, h[es[i]].rate, 0)]

\* lines 203-212: newitems, curitems, added and removed
InvoiceDiff(invoice, h, sec) ==
    [add |-> Counter_sub(ItemCounter(NewItems(h, sec)), ItemCounter(invoice.items)),
     rem |-> Counter_sub(ItemCounter(invoice.items), ItemCounter(NewItems(h, sec))),
     cur |-> ItemCounter(invoice.items), err |-> "", log |-> <<>>]

\* lines 221-222 and what the call leaves for the properties to read: the
\* outcome, added and removed after lines 211-212 (diff) and after the
\* passes (left), and the branches taken (log)
InvoiceWrite(invoice, st0, st, changed, day) ==
    [items |-> IF changed
               THEN ItemSorted(elements(Counter_add(Counter_sub(st.cur, st.rem), st.add)))
               ELSE invoice.items,
     invdate |-> IF changed THEN day ELSE invoice.invdate,
     outcome |-> IF st.err # "" THEN st.err ELSE IF changed THEN "updated" ELSE "kept",
     diff |-> [add |-> st0.add, rem |-> st0.rem],
     left |-> [add |-> st.add, rem |-> st.rem],
     log |-> st.log]

\* line 220: if added or removed: a Counter that has a key is true,
\* whatever its counts
InvoiceFinish(invoice, st0, st, day) ==
    InvoiceWrite(invoice, st0, st, st.err = "" /\ (Len(st.add) > 0 \/ Len(st.rem) > 0), day)

InvoicePasses(invoice, st0, day) ==
    InvoiceFinish(invoice, st0,
                  update_invoice_fix_partial(update_invoice_ignore_sum_match(st0)), day)

\* update_invoice(inv, sec), run on the day given
update_invoice(invoice, h, sec, day) == InvoicePasses(invoice, InvoiceDiff(invoice, h, sec), day)

(***************************************************************************)
(* The invoice update: main of workfile_to_invoice.py has found the        *)
(* section and update_invoice_file reads the invoice and updates it.       *)
(***************************************************************************)
InvDate == Today - 14                    \* the invdate of the invoice as read

\* the descriptions of the items: the title of the section, the same in
\* another spelling, another title, and a description without a word
Descs ==
    [same |-> <<"m", "a", "t", "h">>,
     respelt |-> <<"M", "a", "t", "h">>,
     other |-> <<"a", "r", "t">>,
     blank |-> <<" ">>]

\* the items an invoice is made of
ItemsIn ==
    {Item(Descs.same, Today, t, Heures, 50, 0) : t \in 1..MaxHours}
        \cup {Item(Descs.respelt, Today, 1, Heures, 50, 0),
              Item(Descs.same, Today, 1, Heures, IcsRate, 0),
              Item(Descs.same, Today - 1, 1, Heures, 50, 0),
              Item(Descs.other, Today, 1, Heures, 50, 0),
              Item(Descs.blank, Today, 1, Heures, 50, 0)}

\* the dated lines a section is made of, in the order a sorted section has them
LinesIn == [i \in 1..(MaxHours + 1) |-> WorkfileEntryFull(Today, i - 1, 50, None, None)]

\* the sections: a title and up to MaxNew lines
SectionsIn ==
    {<<WorkfileEntryComment(TitleA)>> \o [i \in 1..Len(ix) |-> LinesIn[ix[i]]] :
        ix \in {s \in SeqsUpTo(1..Len(LinesIn), MaxNew) :
                    \A i \in 1..(Len(s) - 1) : s[i] <= s[i + 1]}}

\* main, lines 337-342: the section is the one find_section returns for the
\* title asked for; a workfile for which it raises reaches no update
InitInvoice ==
    \E sec \in SectionsIn, items \in SeqsUpTo(ItemsIn, MaxItems) :
        /\ heap = sec
        /\ wf = <<[i \in 1..Len(sec) |-> i]>>
        /\ newsec = <<>>
        /\ icsstart = IcsStart
        /\ icsend = IcsEnd
        /\ pc = "invoice"
        /\ obs = NoObs
        /\ today = Today
        /\ query = Descs.same
        /\ found = find_section(heap, wf, today, query)
        /\ found.section # 0
        /\ TextIdle /\ FilesIdle
        /\ inv = [items |-> items, invdate |-> InvDate]
        /\ invobs = NoInvObs

\* update_invoice_file, line 236: update_invoice(inv, sec)
UpdateInvoice ==
    /\ pc = "invoice"
    /\ LET r == update_invoice(inv, heap, wf[found.section], today)
       IN  /\ inv' = [items |-> r.items, invdate |-> r.invdate]
           /\ invobs' = [outcome |-> r.outcome, before |-> inv, diff |-> r.diff,
                         left |-> r.left, log |-> r.log]
    /\ pc' = "invoiced"
    /\ UNCHANGED <<ledgerVars, textVars, fileVars>>

NextInvoice == UpdateInvoice

SpecInvoice == InitInvoice /\ [][NextInvoice]_vars

(***************************************************************************)
(* The end of both command lines: ics_to_workfile.main, lines 543-561, and *)
(* workfile_to_invoice.update_invoice_file, lines 238-265.  The updated    *)
(* ledger or invoice is written to the ".new" file, the differences are    *)
(* shown, the user may be asked, and the files are moved.  One action is   *)
(* one call that reads or changes a file, or the prompt.                   *)
(***************************************************************************)
\* the texts in the files: str(wf) and the empty line main prints after it,
\* str(inv), what the file held before the run, and what an earlier run left
NewVersion(flow) == IF flow = "workfile" THEN <<"str(wf)", "">> ELSE <<"str(inv)">>
Previous == <<"previous">>
Leftover == <<"leftover">>

\* the lines the user may type at the prompt
Answers ==
    {<<>>, <<"y">>, <<"Y">>, <<"n">>, <<"y", "Y">>, <<"Y", "y">>, <<"y", "e", "s">>}

\* lines 553 and 251: not (not res or res not in "yY"), where "in" on
\* strings asks whether res is a slice of "yY"
Accepted(res) ==
    LET text == <<"y", "Y">>
    IN  /\ res # <<>>
        /\ \E i \in 1..(Len(text) + 1) :
              /\ i + Len(res) - 1 <= Len(text)
              /\ SubSeq(text, i, i + Len(res) - 1) = res

\* ics_to_workfile.main reads the workfile, so it exists; update_invoice_file
\* reads the template when one is given, and then the invoice file may not
\* exist yet; workfile_to_invoice.main returns before it without --show-diff
\* and --write (lines 319 and 352)
InitFiles ==
    \E flow \in {"workfile", "invoice"}, write, force, show_diff, template \in BOOLEAN,
       answer \in Answers, orig \in {Previous, Absent}, new, bak \in {Leftover, Absent} :
        /\ flow = "workfile" => ~template
        /\ orig = Absent => template
        /\ flow = "invoice" => show_diff \/ write
        /\ files = [orig |-> orig, new |-> new, bak |-> bak]
        /\ opts = [flow |-> flow, write |-> write, force |-> force,
                   show_diff |-> show_diff, template |-> template, answer |-> answer]
        /\ pc = "updated"
        /\ heap = <<>>
        /\ wf = <<>>
        /\ newsec = <<>>
        /\ icsstart = IcsStart
        /\ icsend = IcsEnd
        /\ obs = NoObs
        /\ today = Today
        /\ query = <<>>
        /\ found = NoFound
        /\ TextIdle /\ InvoiceIdle

\* lines 544 and 239: open(newfile, "w") creates the file or empties it
OpenNew ==
    /\ pc = "updated"
    /\ files' = [files EXCEPT !.new = <<>>]
    /\ pc' = "open"
    /\ UNCHANGED <<opts, ledgerVars, textVars, invoiceVars>>

\* lines 545-546 and 240: the next print or write; the with block ends after
\* the last one
WriteNew ==
    /\ pc = "open"
    /\ LET whole == NewVersion(opts.flow)
           now == Append(files.new, whole[Len(files.new) + 1])
       IN  /\ files' = [files EXCEPT !.new = now]
           /\ pc' = IF now = whole THEN "written" ELSE "open"
    /\ UNCHANGED <<opts, ledgerVars, textVars, invoiceVars>>

\* a call raises and the run ends there, the files as the calls before left
\* them: open (OSError), print or write (OSError), subprocess.call when the
\* differences are shown (FileNotFoundError or another OSError; lines 345-347
\* and 522-524: --write without --force enables --show-diff), os.unlink
\* (OSError), input (EOFError, KeyboardInterrupt), and either shutil.move
\* (OSError; update_invoice_file catches only the FileNotFoundError of a
\* missing invoice file, which MoveBak models)
Raise ==
    /\ \/ pc \in {"updated", "open", "unlink", "replace", "moved"}
       \/ pc = "written" /\ (opts.show_diff \/ (opts.write /\ ~opts.force))
       \/ pc = "diffed" /\ opts.write /\ ~opts.force
    /\ pc' = "raised"
    /\ UNCHANGED <<fileVars, ledgerVars, textVars, invoiceVars>>

\* lines 548-549 and 242-244: if show_diff, diff reads both files; the
\* files stay as they are either way
ShowDiff ==
    /\ pc = "written"
    /\ pc' = IF opts.flow = "invoice" /\ ~opts.write THEN "unlink" ELSE "diffed"
    /\ UNCHANGED <<fileVars, ledgerVars, textVars, invoiceVars>>

\* update_invoice_file, lines 246-247: if not write: os.unlink(new_invoice_file)
Unlink ==
    /\ pc = "unlink"
    /\ files' = [files EXCEPT !.new = Absent]
    /\ pc' = "diffed"
    /\ UNCHANGED <<opts, ledgerVars, textVars, invoiceVars>>

\* lines 551-555 and 249-254: the prompt, when --write came without --force
Ask ==
    /\ pc = "diffed"
    /\ pc' = IF opts.write /\ (opts.force \/ Accepted(opts.answer)) THEN "replace" ELSE "done"
    /\ UNCHANGED <<fileVars, ledgerVars, textVars, invoiceVars>>

\* lines 560 and 260-264: shutil.move(file, bakfile); update_invoice_file goes
\* on when the invoice file does not exist, main of ics_to_workfile has no
\* try around the move: without the workfile the call raises (Raise)
MoveBak ==
    /\ pc = "replace"
    /\ files.orig = Absent => opts.flow = "invoice"
    /\ files' = IF files.orig = Absent
                THEN files
                ELSE [files EXCEPT !.bak = files.orig, !.orig = Absent]
    /\ pc' = "moved"
    /\ UNCHANGED <<opts, ledgerVars, textVars, invoiceVars>>

\* lines 561 and 265: shutil.move(newfile, file)
MoveNew ==
    /\ pc = "moved"
    /\ files' = [files EXCEPT !.orig = files.new, !.new = Absent]
    /\ pc' = "done"
    /\ UNCHANGED <<opts, ledgerVars, textVars, invoiceVars>>

NextFiles ==
    \/ OpenNew
    \/ WriteNew
    \/ Raise
    \/ ShowDiff
    \/ Unlink
    \/ Ask
    \/ MoveBak
    \/ MoveNew

SpecFiles == InitFiles /\ [][NextFiles]_vars

(***************************************************************************)
(* Vocabulary of the properties.  obs.h and obs.wf are the heap and the    *)
(* ledger as the last call received them; heap and wf are what it left.    *)
(***************************************************************************)
Called == pc # "read"

Located == Called /\ obs.target # 0

InWindow(h, id) == h[id].date >= icsstart /\ h[id].date < icsend

\* the dated entries of a section that are dated inside [icsstart, icsend)
Window(h, ent) == SelectSeq(full_entries(h, ent), LAMBDA id : InWindow(h, id))

\* total quantity of the entries of ids with the given date and rate
Quantity(h, ids, d, r) ==
    HoursOf(h, SelectSeq(ids, LAMBDA id : h[id].date = d /\ h[id].rate = r))

DatesRates(h, ids) == {<<h[id].date, h[id].rate>> : id \in Range(ids)}

NewInsideWindow == \A id \in Range(full_entries(obs.h, newsec)) : InWindow(obs.h, id)

Took(kind) == \E i \in 1..Len(obs.log) : obs.log[i].kind = kind

\* the window of the target represents newsec as it was passed in
WindowIsNew ==
    \A dr \in DatesRates(obs.h, full_entries(obs.h, newsec))
              \cup DatesRates(heap, Window(heap, wf[obs.target])) :
        Quantity(heap, Window(heap, wf[obs.target]), dr[1], dr[2])
            = Quantity(obs.h, full_entries(obs.h, newsec), dr[1], dr[2])

\* C1: when one target section is located, newsec lies inside the window and
\* the rate-mismatch pass consumes nothing, the target's window holds, per
\* (date, rate), the total quantity newsec had when it was passed in.
C1_WindowRepresentsNew ==
    (Located /\ NewInsideWindow /\ ~Took("ratemismatch")) => WindowIsNew

\* C1 witness: a merge of two new entries inside the window, one fixed in
\* place or completed and one added, with an entry of the window discarded
\* and no rate-mismatch; the window holds the quantities of newsec
C1_Witness ==
    /\ pc = "updated" /\ Located /\ NewInsideWindow /\ ~Took("ratemismatch")
    /\ Len(obs.diff.add) >= 2
    /\ (Took("single") \/ Took("shortfall"))
    /\ \E i \in 1..Len(obs.last.add) : obs.last.add[i].n > 0
    /\ \E i \in 1..Len(obs.last.rem) : obs.last.rem[i].n > 0
    /\ WindowIsNew

\* number of entries of ids that are key-equal to the value x
CountEq(h, ids, x) == Cardinality({i \in 1..Len(ids) : EntryEq(h[ids[i]], x)})

\* newsec and the window of the located section hold the same dated entries,
\* counted by (date, quantity, rate)
SameMultiset ==
    LET new == full_entries(obs.h, newsec)
        cur == Window(obs.h, obs.wf[obs.target])
    IN  \A id \in Range(new) \cup Range(cur) :
            CountEq(obs.h, new, obs.h[id]) = CountEq(obs.h, cur, obs.h[id])

\* C2: a newsec equal, as a multiset, to the window of the located section
\* yields empty added and removed multisets and leaves the ledger, its
\* entries, their annotations and their order as they were, on the first
\* call and on the repeated one.
C2_Idempotent ==
    (Located /\ SameMultiset) =>
        /\ obs.diff.add = <<>> /\ obs.diff.rem = <<>>
        /\ obs.outcome = "untouched"
        /\ wf = obs.wf
        /\ heap = obs.h

\* C2 witness: the repeated call on an unsorted window of two entries that
\* newsec equals as a multiset
C2_Witness ==
    /\ pc = "repeated" /\ Located /\ SameMultiset
    /\ \E i, j \in 1..Len(wf[obs.target]) :
          /\ i < j
          /\ IsFull(heap, wf[obs.target][i]) /\ IsFull(heap, wf[obs.target][j])
          /\ EntryLt(heap[wf[obs.target][j]], heap[wf[obs.target][i]])

Raised == obs.outcome \in {"RuntimeError", "ValueError"}

Target == wf[obs.target]

TargetBefore == obs.wf[obs.target]

Events(kind) == {i \in 1..Len(obs.log) : obs.log[i].kind = kind}

\* what is left of a multiset: the sum of its positive multiplicities
Remaining(c) == SumSeq([i \in 1..Len(c) |-> Max2(0, c[i].n)])

RemainingOf(c, id) == SumSeq([i \in 1..Len(c) |-> IF c[i].key = id THEN Max2(0, c[i].n) ELSE 0])

\* the entries the section had before the call, in the order they have now
Survivors == SelectSeq(Target, LAMBDA id : id \in Range(TargetBefore))

\* C3: when the four passes leave no added and no removed entry, the target
\* section is not re-sorted: its entries keep the order they had.
C3_UntouchedNotSorted ==
    (Located /\ Len(obs.snaps) = 4
       /\ Remaining(obs.snaps[4].add) = 0 /\ Remaining(obs.snaps[4].rem) = 0)
    => Survivors = TargetBefore

\* the entries the section had before the call with the date and rate of a
Group(a) ==
    SelectSeq(full_entries(obs.h, TargetBefore),
              LAMBDA id : obs.h[id].date = obs.h[a].date /\ obs.h[id].rate = obs.h[a].rate)

\* ... and the ones it has now
GroupNow(a) ==
    SelectSeq(full_entries(heap, Target),
              LAMBDA id : heap[id].date = obs.h[a].date /\ heap[id].rate = obs.h[a].rate)

\* none of the entries of the group of a was deleted or changed
GroupKept(a) ==
    \A id \in Range(Group(a)) : id \in Range(Target) /\ heap[id] = obs.h[id]

SameGroupMultiset(a) ==
    /\ \A id \in Range(Group(a)) :
          CountEq(heap, GroupNow(a), obs.h[id]) = CountEq(obs.h, Group(a), obs.h[id])
    /\ \A id \in Range(GroupNow(a)) :
          CountEq(heap, GroupNow(a), heap[id]) = CountEq(obs.h, Group(a), heap[id])

\* how often the object id occurs in a list
Occurrences(ids, id) == Cardinality({i \in 1..Len(ids) : ids[i] = id})

\* how often the call appended the object id to the target section
Appended(id) == Occurrences(Target, id) - Occurrences(TargetBefore, id)

\* a is the only added entry with its date and rate
OnlyAdded(a) ==
    SumSeq([i \in 1..Len(obs.diff.add) |->
              IF /\ obs.h[obs.diff.add[i].key].date = obs.h[a].date
                 /\ obs.h[obs.diff.add[i].key].rate = obs.h[a].rate
              THEN obs.diff.add[i].n ELSE 0]) = 1

\* C4: an added entry with two or more remaining removed entries of its
\* date and rate whose hours total its own is consumed with them: it is not
\* appended to the target, none of those removed entries is deleted or
\* changed, and the target's entries for that date and rate are the same
\* multiset as before the call.
C4_SumMatchConsumes ==
    (Located /\ ~Raised) =>
        \A i \in Events("sum") :
            LET e == obs.log[i]
            IN  /\ Len(e.matches) >= 2
                /\ HoursOf(obs.h, e.matches) = obs.h[e.a].hours
                /\ \A m \in Range(e.matches) :
                      /\ obs.h[m].date = obs.h[e.a].date /\ obs.h[m].rate = obs.h[e.a].rate
                      /\ RemainingOf(obs.snaps[1].rem, m) = 0
                /\ GroupKept(e.a)
                /\ Appended(e.a) = 0
                /\ SameGroupMultiset(e.a)

\* C4 witness: two removed entries were sum-matched by an added entry, next
\* to an entry of another date that the call appended
C4_Witness ==
    /\ Located /\ ~Raised /\ pc = "updated"
    /\ Len(Target) > Len(TargetBefore)
    /\ \E i \in Events("sum") : Len(obs.log[i].matches) = 2

\* what a call found different, counted in entries
DiffSize(c) == SumSeq([i \in 1..Len(c) |-> c[i].n])

\* C5: a single-match fix gives the first target entry key-equal to the one
\* remaining rate-match the quantity of the added entry, keeps its date,
\* rate, annotation and annotation offset, consumes both sides, and neither
\* appends nor deletes an entry for the pair.
C5_SingleFixInPlace ==
    Located =>
        \A i \in Events("single") :
            LET e == obs.log[i]
                m == e.matches[1]
                idx == ListIndex(obs.h, TargetBefore, obs.h[m])
            IN  /\ e.matches = e.ratematches /\ Len(e.matches) = 1
                /\ e.ahours = obs.h[e.a].hours
                /\ idx # 0
                /\ heap[TargetBefore[idx]] = [obs.h[TargetBefore[idx]] EXCEPT !.hours = e.ahours]
                /\ ~Raised =>
                      /\ TargetBefore[idx] \in Range(Target)
                      /\ RemainingOf(obs.snaps[2].rem, m) = 0
                      /\ Appended(e.a) = RemainingOf(obs.snaps[4].add, e.a)
                      /\ (DiffSize(obs.diff.add) = 1 /\ DiffSize(obs.diff.rem) = 1)
                            => Len(Target) = Len(TargetBefore)

\* C5 witness: the one difference of a call was fixed in place, in an entry
\* that carries an annotation
C5_Witness ==
    /\ Located /\ ~Raised /\ pc = "updated"
    /\ DiffSize(obs.diff.add) = 1 /\ DiffSize(obs.diff.rem) = 1
    /\ \E i \in Events("single") :
          /\ heap[obs.log[i].matches[1]].comment # None
          /\ heap[obs.log[i].matches[1]].hours # obs.h[obs.log[i].matches[1]].hours

\* C6: a shortfall keeps every matched entry in the target unchanged and
\* appends one entry with the date and rate of the added entry and the
\* quantity added minus the total of the matched quantities.
C6_ShortfallAppendsRest ==
    Located =>
        \A i \in Events("shortfall") :
            LET e == obs.log[i]
                total == HoursOf(obs.h, e.matches)
            IN  /\ e.matches = e.ratematches /\ Len(e.matches) >= 2
                /\ e.ahours = obs.h[e.a].hours /\ total < e.ahours
                /\ heap[e.a] = [obs.h[e.a] EXCEPT !.hours = e.ahours - total]
                /\ ~Raised =>
                      /\ GroupKept(e.a)
                      /\ Appended(e.a) = 1 + RemainingOf(obs.snaps[4].add, e.a)
                      /\ OnlyAdded(e.a) =>
                            /\ Appended(e.a) = 1
                            /\ Len(GroupNow(e.a)) = Len(Group(e.a)) + 1
                            /\ Quantity(heap, Target, obs.h[e.a].date, obs.h[e.a].rate)
                                  = Quantity(obs.h, newsec, obs.h[e.a].date, obs.h[e.a].rate)

\* C6 witness: two entries of 1 hour and an added entry of 3 hours gave one
\* new entry of 1 hour
C6_Witness ==
    /\ Located /\ ~Raised /\ pc = "updated"
    /\ \E i \in Events("shortfall") :
          /\ OnlyAdded(obs.log[i].a)
          /\ Len(obs.log[i].matches) = 2
          /\ obs.log[i].ahours = 3 /\ heap[obs.log[i].a].hours = 1

\* C7: the rate-mismatch pass consumes an added entry only when that entry
\* has no remaining removed entry with its date and its rate.
C7_RateMismatchOnlyWithoutRateMatch ==
    Located => \A i \in Events("ratemismatch") : obs.log[i].ratematches = <<>>

\* the widened search window of update_course
InSearchWindow(h, id) ==
    h[id].date >= icsstart - SearchMargin /\ h[id].date < icsend + SearchMargin

\* no section of the ledger has a dated entry inside the search window
NoEntryInSearchWindow ==
    \A s \in 1..Len(obs.wf) :
        \A id \in Range(full_entries(obs.h, obs.wf[s])) : ~InSearchWindow(obs.h, id)

\* C8: when no section has a dated entry inside the search window, newsec
\* becomes the new last section and the sections that existed are unchanged.
C8_NoSectionAppends ==
    (Called /\ NoEntryInSearchWindow) => wf = Append(obs.wf, newsec) /\ heap = obs.h

\* the date range of section s overlaps the search window
RangeOverlaps(h, ent) ==
    /\ full_entries(h, ent) # <<>>
    /\ \E id \in Range(full_entries(h, ent)) : h[id].date < icsend + SearchMargin
    /\ \E id \in Range(full_entries(h, ent)) : h[id].date >= icsstart - SearchMargin

\* the sections with the title of newsec whose date range overlaps the search window
Candidates ==
    {s \in 1..Len(obs.wf) :
        title(obs.h, obs.wf[s]) = title(obs.h, newsec) /\ RangeOverlaps(obs.h, obs.wf[s])}

\* C9: with two or more candidate sections the call changes nothing: the
\* list of sections and every entry are the same after the call as before.
C9_SeveralNoUpdate ==
    (Called /\ Cardinality(Candidates) >= 2) =>
        wf = obs.wf /\ heap = obs.h /\ obs.outcome = "several"

\* C9 witness: two candidate sections with entries in the window, and a
\* newsec that has entries to merge
C9_Witness ==
    /\ pc = "updated" /\ Cardinality(Candidates) >= 2
    /\ full_entries(obs.h, newsec) # <<>>
    /\ \A s \in Candidates : Window(obs.h, obs.wf[s]) # <<>>

\* the lookup window of find_section
InLookupWindow(h, id) ==
    h[id].date >= today - RecentDays /\ h[id].date < today + AheadDays

\* the sections titled exactly as requested that have a dated entry inside
\* the lookup window
Duplicates ==
    {s \in 1..Len(wf) :
        /\ Section_title(heap, wf[s]) = query
        /\ \E id \in Range(full_entries(heap, wf[s])) : InLookupWindow(heap, id)}

\* the sections titled exactly as requested whose date range overlaps the
\* lookup window
LookupCandidates ==
    {s \in 1..Len(wf) :
        /\ Section_title(heap, wf[s]) = query
        /\ \E id \in Range(full_entries(heap, wf[s])) : heap[id].date < today + AheadDays
        /\ \E id \in Range(full_entries(heap, wf[s])) : heap[id].date >= today - RecentDays}

\* C10 as stated: with two or more sections of the requested title inside
\* the lookup window, find_section returns none of them.
C10_DuplicatesNotPicked ==
    (pc = "found" /\ Cardinality(Duplicates) >= 2) =>
        found.section = 0 /\ found.outcome \notin {"exact", "last", "approx"}

\* C10, what find_section does: with two or more sections of the requested
\* title whose date range overlaps the lookup window, it returns the last of
\* them in ledger order, whatever their content.
C10_LastDuplicatePicked ==
    (pc = "found" /\ Cardinality(LookupCandidates) >= 2) =>
        /\ found.outcome = "last"
        /\ found.section \in LookupCandidates
        /\ \A s \in LookupCandidates : s <= found.section

\* C10 witness: two sections of the requested title with different entries,
\* both with an entry inside the lookup window; the later one was returned
C10_Witness ==
    /\ pc = "found" /\ Cardinality(Duplicates) >= 2
    /\ \E s \in Duplicates :
          /\ s < found.section
          /\ found.section \in Duplicates
          /\ Len(wf[s]) # Len(wf[found.section])

(***************************************************************************)
(* The approximate lookup of find_section.                                 *)
(***************************************************************************)
\* no section of the lookup window has the requested title
NoExactTitle == filter_sections(heap, wf, today, query) = <<>>

\* the titles of the sections of the lookup window, in ledger order
WindowTitles ==
    LET wff == filter_sections(heap, wf, today, None)
    IN  [i \in 1..Len(wff) |-> Section_title(heap, wf[wff[i]])]

BestMatch == approx_match(query, WindowTitles)

\* the lookup went to the approximate match and approx_match gave a title
HasBestCandidate == pc = "found" /\ NoExactTitle /\ BestMatch.err = ""

BestCandidate == WindowTitles[BestMatch.i]

BestScore == approx_score(query, BestCandidate).v

\* C11 as stated: without an exact title, the best candidate c is accepted
\* if and only if 10 * approx_score(title, c) < len(c); at
\* 10 * approx_score(title, c) = len(c) or more no section is returned and
\* SectionNameError is raised.
C11_AcceptedIffBelowTenth ==
    HasBestCandidate =>
        IF 10 * BestScore < Len(BestCandidate)
        THEN /\ found.outcome = "approx"
             /\ found.section # 0
             /\ Section_title(heap, wf[found.section]) = BestCandidate
        ELSE found.outcome = "SectionNameError" /\ found.section = 0

\* the same for candidates of one character or more: the case the division
\* of line 87 is defined for
C11_AcceptedIffBelowTenthNonEmpty ==
    (HasBestCandidate /\ Len(BestCandidate) > 0) => C11_AcceptedIffBelowTenth

\* C11 witness: a best candidate of no character at all, whose score of 0
\* meets 10 * score = len(c): the division of line 87 raised
C11_Witness ==
    /\ HasBestCandidate
    /\ Len(BestCandidate) = 0 /\ BestScore = 0
    /\ found.outcome = "ZeroDivisionError"

\* the boundary itself: a candidate of ten characters at score 1 was refused
C11_BoundaryRefused ==
    /\ HasBestCandidate
    /\ Len(BestCandidate) = 10 /\ BestScore = 1
    /\ found.outcome = "SectionNameError"

\* just under the boundary: a candidate of eleven characters at score 1 was
\* accepted
C11_BelowBoundaryAccepted ==
    /\ HasBestCandidate
    /\ Len(BestCandidate) = 11 /\ BestScore = 1
    /\ found.outcome = "approx"

(***************************************************************************)
(* The title by which update_course locates its section.                   *)
(***************************************************************************)
\* the titles of the sections whose date range overlaps the search window:
\* the sections of wf.filter(sec_search_start, sec_search_end) without a title
SearchWindowTitles ==
    LET inside == SelectSeq([i \in 1..Len(obs.wf) |-> i],
                            LAMBDA i : RangeOverlaps(obs.h, obs.wf[i]))
    IN  [i \in 1..Len(inside) |-> title(obs.h, obs.wf[inside[i]])]

\* approx_match picks a title of the search window for the title of newsec,
\* and it passes the acceptance threshold of find_section
ApproximateTitlePasses ==
    LET best == approx_match(title(obs.h, newsec), SearchWindowTitles)
        c == SearchWindowTitles[best.i]
    IN  /\ best.err = ""
        /\ 10 * approx_score(title(obs.h, newsec), c).v < Len(c)

\* C12 as stated: when no section of the search window has exactly the title
\* of newsec and the best approximate title passes the threshold, the new
\* entries are merged into an existing section and newsec is not appended.
C12_ApproximateTitleMerges ==
    (Called /\ Candidates = {} /\ ApproximateTitlePasses) =>
        wf # Append(obs.wf, newsec) /\ Len(wf) = Len(obs.wf)

\* C12 witness: a section with entries inside [icsstart, icsend) whose title
\* differs from the title of newsec in case only (score 0), and a newsec
\* with entries; newsec was appended
C12_Witness ==
    /\ pc = "updated" /\ Candidates = {} /\ ApproximateTitlePasses
    /\ full_entries(obs.h, newsec) # <<>>
    /\ \E s \in 1..Len(obs.wf) : Window(obs.h, obs.wf[s]) # <<>>
    /\ wf = Append(obs.wf, newsec)

(***************************************************************************)
(* The sections WorkfileFiltered.sections returns.                         *)
(***************************************************************************)
\* the dated entries of section s that lie inside the lookup window
InsideLookup(s) ==
    SelectSeq(full_entries(heap, wf[s]), LAMBDA id : InLookupWindow(heap, id))

\* the sections returned for the lookup window, filtered by the requested
\* title (line 73) or by no title (line 83)
Returned ==
    Range(filter_sections(heap, wf, today, query))
        \cup Range(filter_sections(heap, wf, today, None))

\* C16: every section returned for a window has a dated entry inside the
\* window; a section with entries before and after the window and none
\* inside is not returned.
C16_ReturnedViewsNonEmpty ==
    pc = "found" => \A s \in Returned : InsideLookup(s) # <<>>

\* C16 witness: find_section returned a section that has one entry before
\* the lookup window, one after it and none inside
C16_Witness ==
    /\ pc = "found" /\ found.section # 0
    /\ found.section \in Returned
    /\ InsideLookup(found.section) = <<>>
    /\ \E id \in Range(full_entries(heap, wf[found.section])) :
          heap[id].date < today - RecentDays
    /\ \E id \in Range(full_entries(heap, wf[found.section])) :
          heap[id].date >= today + AheadDays

(***************************************************************************)
(* Edit sequences: the reference levenshtein is compared with.             *)
(***************************************************************************)
\* the words one deletion or one insertion away from w; insertions take
\* their character from chars and stop at n characters
Indels(w, chars, n) ==
    {SubSeq(w, 1, i - 1) \o SubSeq(w, i + 1, Len(w)) : i \in 1..Len(w)}
        \cup (IF Len(w) >= n THEN {}
              ELSE {SubSeq(w, 1, i) \o <<c>> \o SubSeq(w, i + 1, Len(w)) :
                        i \in 0..Len(w), c \in chars})

\* the words one substitution away from w
Substitutions(w, chars) ==
    {[w EXCEPT ![i] = c] : i \in 1..Len(w), c \in chars}

\* the words some sequence of edits of total cost at most k makes of a:
\* an insertion or a deletion costs 1, a substitution costs 2
RECURSIVE WithinCost(_, _, _, _)
WithinCost(a, chars, n, k) ==
    IF k < 0 THEN {}
    ELSE IF k = 0 THEN {a}
    ELSE LET near == WithinCost(a, chars, n, k - 1)
             nearer == WithinCost(a, chars, n, k - 2)
         IN  near \cup UNION {Indels(w, chars, n) : w \in near}
                  \cup UNION {Substitutions(w, chars) : w \in nearer}

\* the least total cost of a sequence of edits that turns a into b
EditCost(a, b) ==
    MinOf({k \in 0..(Len(a) + Len(b)) :
              b \in WithinCost(a, Alphabet \cup Range(b), MaxWord, k)})

\* C19: levenshtein(a, b) is the least total cost of a sequence of
\* single-character edits turning a into b, at cost 1 for an insertion or a
\* deletion and 2 for a substitution; levenshtein(s, s) = 0 and
\* levenshtein(a, b) = levenshtein(b, a).
C19_MinimalEditCost ==
    pc = "levenshtein" =>
        /\ ret.err = ""
        /\ ret.v = EditCost(args[1], args[2])
        /\ (args[1] = args[2] => ret.v = 0)
        /\ ret.v = levenshtein(args[2], args[1])

\* C19 witness: two words of the same length that differ in every
\* character, where substitutions at cost 1 would be cheaper
C19_Witness ==
    /\ pc = "levenshtein"
    /\ Len(args[1]) = Len(args[2]) /\ Len(args[1]) >= 2
    /\ \A i \in 1..Len(args[1]) : args[1][i] # args[2][i]
    /\ ret.v = 2 * Len(args[1])

(***************************************************************************)
(* Tokens: the reference approx_score is compared with.                    *)
(***************************************************************************)
\* s[i..j] is a token of s: a run of characters other than whitespace that
\* no such character precedes or follows
IsToken(s, i, j) ==
    /\ i <= j
    /\ \A k \in i..j : s[k] \notin Whitespace
    /\ (i = 1 \/ s[i - 1] \in Whitespace)
    /\ (j = Len(s) \/ s[j + 1] \in Whitespace)

TokenStarts(s) == {i \in 1..Len(s) : \E j \in i..Len(s) : IsToken(s, i, j)}

\* the token that starts at i, in lower case
TokenAt(s, i) ==
    LET j == CHOOSE j \in i..Len(s) : IsToken(s, i, j)
    IN  [k \in 1..(j - i + 1) |->
            IF s[i + k - 1] \in DOMAIN ToLower THEN ToLower[s[i + k - 1]] ELSE s[i + k - 1]]

\* the least edit cost from the token of text1 that starts at i to a token
\* of text2
TokenMinimum(text1, i, text2) ==
    MinOf({EditCost(TokenAt(text1, i), TokenAt(text2, j)) : j \in TokenStarts(text2)})

RECURSIVE SumOver(_, _, _)
SumOver(starts, text1, text2) ==
    IF starts = {} THEN 0
    ELSE LET i == CHOOSE i \in starts : TRUE
         IN  TokenMinimum(text1, i, text2) + SumOver(starts \ {i}, text1, text2)

\* the sum of the minima is defined: text2 has a token or text1 has none
ScoreDefined(text1, text2) == TokenStarts(text2) # {} \/ TokenStarts(text1) = {}

\* C18 as stated: for every pair of texts, those with no token included,
\* approx_score returns a non-negative integer, the sum over the tokens of
\* text1 of the least edit distance to a token of text2.
C18_SumOfTokenMinima ==
    pc = "approx_score" =>
        /\ ret.err = ""
        /\ ret.v \in Nat
        /\ ScoreDefined(args[1], args[2]) =>
              ret.v = SumOver(TokenStarts(args[1]), args[1], args[2])

\* the same for the pairs of texts where the sum is defined
C18_SumWhereDefined ==
    (pc = "approx_score" /\ ScoreDefined(args[1], args[2])) => C18_SumOfTokenMinima

\* C18 witness: text1 has a token, text2 is made of whitespace only, and
\* approx_score raised ValueError
C18_Witness ==
    /\ pc = "approx_score"
    /\ TokenStarts(args[1]) # {}
    /\ args[2] # <<>> /\ TokenStarts(args[2]) = {}
    /\ ret.err = "ValueError"

\* two texts of several tokens each, in mixed case, scored above 0
C18_ScoredSeveralTokens ==
    /\ pc = "approx_score"
    /\ Cardinality(TokenStarts(args[1])) >= 2 /\ Cardinality(TokenStarts(args[2])) >= 2
    /\ \E k \in 1..Len(args[2]) : args[2][k] \in DOMAIN ToLower
    /\ ret.err = "" /\ ret.v > 0

(***************************************************************************)
(* The candidate approx_match returns.                                     *)
(***************************************************************************)
Nail == Head(args)

Haystack == Tail(args)

\* the score of the candidate at position j, by the reference
HayScore(j) == SumOver(TokenStarts(Nail), Nail, Haystack[j])

\* every candidate can be scored
AllScored == \A j \in 1..Len(Haystack) : ScoreDefined(Nail, Haystack[j])

\* C17 as stated: for a non-empty sequence of candidates approx_match
\* returns a candidate of minimal score, the first of them in iteration
\* order; for an empty sequence it fails and returns no candidate.
C17_FirstMinimalCandidate ==
    pc = "approx_match" =>
        IF Haystack = <<>> THEN ret.err # "" /\ ret.v = 0
        ELSE /\ ret.err = ""
             /\ ret.v \in 1..Len(Haystack)
             /\ \A j \in 1..Len(Haystack) : HayScore(ret.v) <= HayScore(j)
             /\ \A j \in 1..(ret.v - 1) : HayScore(j) > HayScore(ret.v)

\* the same for the sequences whose candidates can all be scored
C17_FirstMinimalWhereScored ==
    (pc = "approx_match" /\ AllScored) => C17_FirstMinimalCandidate

\* C17 witness: a candidate with no token next to one with a token, a nail
\* with a token, and approx_match raised ValueError
C17_Witness ==
    /\ pc = "approx_match"
    /\ TokenStarts(Nail) # {}
    /\ \E j \in 1..Len(Haystack) : TokenStarts(Haystack[j]) = {}
    /\ \E j \in 1..Len(Haystack) : TokenStarts(Haystack[j]) # {}
    /\ ret.err = "ValueError"

\* two different candidates of the same minimal score, above 0: the first
\* was returned
C17_TieReturnsFirst ==
    /\ pc = "approx_match" /\ AllScored /\ Len(Haystack) >= 2
    /\ ret.err = "" /\ ret.v = 1
    /\ Haystack[1] # Haystack[2]
    /\ HayScore(1) = HayScore(2) /\ HayScore(1) > 0

\* the minimal candidate is not the first one
C17_LaterCandidateReturned ==
    /\ pc = "approx_match" /\ AllScored
    /\ ret.err = "" /\ ret.v >= 2

(***************************************************************************)
(* The multiplicities of added_entries and removed_entries.                *)
(***************************************************************************)
\* added_entries and removed_entries at the points the call recorded: after
\* lines 383-384, after each finished pass, and when the call ended
CascadePoints == <<obs.diff>> \o obs.snaps \o <<obs.last>>

NonNegative(c) == \A i \in 1..Len(c) : c[i].n >= 0

\* the branches that consume removed entries
Consuming == {"sum", "single", "shortfall", "ratemismatch"}

\* how many times the removed entry id was consumed over the cascade
RECURSIVE ConsumedUpTo(_, _)
ConsumedUpTo(id, k) ==
    IF k = 0 THEN 0
    ELSE ConsumedUpTo(id, k - 1)
            + (IF obs.log[k].kind \in Consuming
               THEN Occurrences(obs.log[k].matches, id) ELSE 0)

Consumed(id) == ConsumedUpTo(id, Len(obs.log))

\* each removed entry is consumed at most as many times as it has instances
ConsumedOnce ==
    \A i \in 1..Len(obs.diff.rem) :
        Consumed(obs.diff.rem[i].key) <= obs.diff.rem[i].n

\* C20: at every point of the cascade every multiplicity of added_entries
\* and removed_entries is at least 0, and each instance of a removed entry is
\* consumed by at most one added entry, multiplicities of 2 or more included.
C20_NoReuse ==
    Called =>
        /\ \A p \in 1..Len(CascadePoints) :
              NonNegative(CascadePoints[p].add) /\ NonNegative(CascadePoints[p].rem)
        /\ ConsumedOnce

\* C20 witness: two key-equal entries of the window (a multiplicity of 2
\* in removed_entries) were consumed, each once, by the new entry of their
\* date, and another new entry went through the cascade beside it
C20_Witness ==
    /\ pc = "updated" /\ ~Raised
    /\ Len(obs.diff.add) >= 2
    /\ \E i \in 1..Len(obs.diff.rem) :
          obs.diff.rem[i].n >= 2 /\ Consumed(obs.diff.rem[i].key) = obs.diff.rem[i].n

(***************************************************************************)
(* What update_invoice leaves of the invoice.                              *)
(***************************************************************************)
Invoiced == pc = "invoiced"

\* the items of the invoice are, counted by value, those it had before the call
SameItems ==
    \A x \in Range(inv.items) \cup Range(invobs.before.items) :
        Occurrences(inv.items, x) = Occurrences(invobs.before.items, x)

\* the call found differences, and the sum-match pass consumed them all
AllSumMatched ==
    /\ invobs.diff.add # <<>>
    /\ \A i \in 1..Len(invobs.log) : invobs.log[i].kind = "sum"
    /\ elements(invobs.left.add) = <<>> /\ elements(invobs.left.rem) = <<>>

\* C13: the invdate is set to the current date and the list of items is
\* replaced exactly when the items after the call differ, as a multiset,
\* from the items before; when the sum-match pass consumes every difference
\* the invdate and the order of the items stay as they were.
C13_StampedIffItemsChanged ==
    Invoiced =>
        /\ ~SameItems => inv.invdate = today
        /\ SameItems => inv = invobs.before
        /\ AllSumMatched => inv = invobs.before

\* what the code does instead: the invoice is rewritten, sorted, and dated
\* today whenever the call found a difference and did not raise
C13_StampedIffDifferenceFound ==
    Invoiced =>
        IF invobs.outcome = "updated"
        THEN /\ invobs.diff.add # <<>> \/ invobs.diff.rem # <<>>
             /\ inv.invdate = today
             /\ inv.items = ItemSorted(inv.items)
        ELSE /\ inv = invobs.before
             /\ invobs.outcome = "kept" => invobs.diff.add = <<>> /\ invobs.diff.rem = <<>>

\* C13 witness: two items that were not in sorted order add up to the one
\* new item; the sum-match pass consumed all three, the items are the same
\* multiset, and yet they were re-ordered and the invdate was set to today
C13_Witness ==
    /\ Invoiced /\ AllSumMatched /\ SameItems
    /\ Len(invobs.before.items) = 2
    /\ inv.items # invobs.before.items
    /\ invobs.before.invdate # today /\ inv.invdate = today

(***************************************************************************)
(* The items the partial-fix pass puts into the invoice.                   *)
(***************************************************************************)
\* the branches of kind k that update_invoice took
InvoiceEvents(k) == {i \in 1..Len(invobs.log) : invobs.log[i].kind = k}

\* how many items equal to x the pass put into the invoice
PutsOf(x) ==
    Cardinality({i \in 1..Len(invobs.log) : invobs.log[i].put = <<x>>})

\* how many items equal to x the single-match branch took out
ReplacedOf(x) ==
    Cardinality({i \in InvoiceEvents("single") : invobs.log[i].matches[1] = x})

\* the invoice holds what it held, less the items replaced and the removed
\* items left, plus the items put and the added items left
InvoiceAccounts ==
    \A x \in Range(inv.items) \cup Range(invobs.before.items)
              \cup {invobs.log[i].put[1] : i \in InvoiceEvents("single") \cup InvoiceEvents("shortfall")} :
        Occurrences(inv.items, x)
            = Occurrences(invobs.before.items, x) - ReplacedOf(x) + PutsOf(x)
                - CountOf(invobs.left.rem, x) + CountOf(invobs.left.add, x)

\* C14: an item the partial-fix pass puts into the invoice has the
\* description of a matched existing item and a quantity from the new data.
\* Single match: the matched item is replaced by one item with its own
\* description, date, unit, rate and vat and the quantity of the new item.
\* Shortfall: the matched items stay and one item is added, with the
\* description of the first matched item and the quantity of the new item
\* less the total of the matched items.
C14_PartialFixKeepsDescription ==
    (Invoiced /\ invobs.outcome = "updated") =>
        /\ \A i \in InvoiceEvents("single") :
              LET e == invobs.log[i]
              IN  /\ Len(e.matches) = 1
                  /\ e.put = <<Item(e.matches[1].desc, e.matches[1].date, e.a.time,
                                    e.matches[1].unit, e.matches[1].rate, e.matches[1].vat)>>
        /\ \A i \in InvoiceEvents("shortfall") :
              LET e == invobs.log[i]
              IN  /\ Len(e.matches) > 1
                  /\ Len(e.put) = 1
                  /\ e.put[1].desc = e.matches[1].desc
                  /\ e.put[1].time = e.a.time - TotalTime(e.matches)
                  /\ e.put[1].time > 0
                  /\ \A k \in 1..Len(e.matches) :
                        Occurrences(inv.items, e.matches[k])
                            >= Occurrences(e.matches, e.matches[k])
        /\ \A i \in InvoiceEvents("sum") \cup InvoiceEvents("excess") :
              invobs.log[i].put = <<>>
        /\ InvoiceAccounts

\* C14 witness, single match: an item described otherwise than the section
\* and of another quantity was replaced; its description is in the invoice
\* with the new quantity, the description of the section is not
C14_Witness ==
    /\ Invoiced /\ invobs.outcome = "updated"
    /\ \E i \in InvoiceEvents("single") :
          LET e == invobs.log[i]
          IN  /\ e.matches[1].desc # e.a.desc
              /\ e.matches[1].time # e.a.time
              /\ e.put[1] \in Range(inv.items)
              /\ e.matches[1] \notin Range(inv.items)
              /\ \A k \in 1..Len(inv.items) : inv.items[k].desc # e.a.desc

\* shortfall: two matched items stay, the first described otherwise than
\* the section, and the item added has that description
C14_ShortfallWitness ==
    /\ Invoiced /\ invobs.outcome = "updated"
    /\ \E i \in InvoiceEvents("shortfall") :
          LET e == invobs.log[i]
          IN  /\ e.matches[1].desc # e.a.desc
              /\ e.put[1] \in Range(inv.items)
              /\ Len(inv.items) = Len(invobs.before.items) + 1

(***************************************************************************)
(* C15.  In both command lines the file named on the command line is       *)
(* replaced only after the complete new version has been written to the    *)
(* ".new" file, and only if --write was given and either --force was given *)
(* or the user answered the prompt with y or Y; the replacement first      *)
(* moves the original to ".bak" and then moves ".new" into place.  In      *)
(* every other run the content of the original file does not change.       *)
(***************************************************************************)
AnsweredYes == opts.answer \in {<<"y">>, <<"Y">>}

\* the original goes to ".bak", the two other files stay
MovesToBak ==
    /\ files.orig # Absent
    /\ files' = [files EXCEPT !.bak = files.orig, !.orig = Absent]

\* ".new" takes the place the original left, ".bak" stays
MovesIntoPlace ==
    /\ files.orig = Absent
    /\ files' = [files EXCEPT !.orig = files.new, !.new = Absent]

\* a step that changes the original is one of the two moves, made while
\* ".new" holds the whole new version and the user agreed in the way given
ReplacesWhen(agreed) ==
    files'.orig # files.orig =>
        /\ files.new = NewVersion(opts.flow)
        /\ opts.write /\ (opts.force \/ agreed)
        /\ MovesToBak \/ MovesIntoPlace

\* C15 as stated: the original changes only by the two moves in their
\* order, with ".new" complete, under --write and --force or an answer
\* of y or Y
C15_ReplacedOnlyWhenConfirmed == [][ReplacesWhen(AnsweredYes)]_vars

\* C15 with the answers the prompt takes for a yes: the non-empty slices
\* of "yY"
C15_ReplacedOnlyWhenAccepted == [][ReplacesWhen(Accepted(opts.answer))]_vars

\* a run under --write without --force where the user typed yY and the new
\* version took the place of the original, which is now in ".bak"
C15_Witness ==
    /\ pc = "done"
    /\ opts.flow # "none"
    /\ opts.write /\ ~opts.force /\ opts.answer = <<"y", "Y">>
    /\ files = [orig |-> NewVersion(opts.flow), new |-> Absent, bak |-> Previous]

\* a run that ended without the moves left the original as it was
C15_OtherRunsKeepOriginal ==
    (pc \in {"done", "raised"} /\ opts.flow # "none"
        /\ ~(opts.write /\ (opts.force \/ Accepted(opts.answer))))
        => files.orig \in {Previous, Absent} /\ files.bak \in {Leftover, Absent}

(***************************************************************************)
(* C21.  update_course does not modify newsec when it merges it into a     *)
(* located section: after the call every dated entry of newsec has the     *)
(* date, the hours and the rate it had before the call, in every branch of *)
(* the cascade, the shortfall branch of the partial-fix pass included.     *)
(***************************************************************************)
\* the dated entries of newsec whose date, hours or rate the call changed
NewChanged ==
    {id \in Range(full_entries(obs.h, newsec)) :
        \/ heap[id].date # obs.h[id].date
        \/ heap[id].hours # obs.h[id].hours
        \/ heap[id].rate # obs.h[id].rate}

\* C21 as stated: a merge leaves every dated entry of newsec as it was
C21_NewSectionKept == Located => NewChanged = {}

\* C21 outside the shortfall branch: a merge that never took it leaves
\* every dated entry of newsec as it was
C21_NewSectionKeptWithoutShortfall == (Located /\ ~Took("shortfall")) => NewChanged = {}

\* a merge took the shortfall branch for an entry of newsec that now has
\* fewer hours than it was passed in with, and is in the located section
C21_Witness ==
    /\ Located /\ ~Raised
    /\ \E i \in Events("shortfall") :
          LET a == obs.log[i].a
          IN  /\ a \in Range(newsec)
              /\ a \in NewChanged
              /\ heap[a].hours < obs.h[a].hours
              /\ a \in Range(Target)

(***************************************************************************)
(* C22.  Frame of update_course when one section is located and every      *)
(* dated entry of newsec is dated inside [icsstart, icsend): every other   *)
(* section of the ledger is unchanged, the number of sections is           *)
(* unchanged, the comment entries of the located section are unchanged,    *)
(* and the dated entries of the located section dated outside the window   *)
(* are the same multiset after the call as before, with their comments.    *)
(***************************************************************************)
\* the entries of a section as values, comments and spacing included
Records(h, ids) == [i \in 1..Len(ids) |-> h[ids[i]]]

CommentEntries(h, ent) == SelectSeq(ent, LAMBDA id : ~IsFull(h, id))

\* the dated entries of a section dated outside [icsstart, icsend)
Outside(h, ent) == SelectSeq(full_entries(h, ent), LAMBDA id : ~InWindow(h, id))

\* two lists of values hold every value the same number of times
SameBag(xs, ys) ==
    \A x \in Range(xs) \cup Range(ys) :
        Cardinality({i \in 1..Len(xs) : xs[i] = x}) = Cardinality({i \in 1..Len(ys) : ys[i] = x})

OtherSectionsKept ==
    /\ Len(wf) = Len(obs.wf)
    /\ \A s \in 1..Len(obs.wf) :
          s # obs.target =>
              /\ wf[s] = obs.wf[s]
              /\ Records(heap, wf[s]) = Records(obs.h, obs.wf[s])

CommentsKept ==
    /\ CommentEntries(heap, Target) = CommentEntries(obs.h, TargetBefore)
    /\ Records(heap, CommentEntries(heap, Target))
          = Records(obs.h, CommentEntries(obs.h, TargetBefore))

OutsideKept ==
    SameBag(Records(heap, Outside(heap, Target)), Records(obs.h, Outside(obs.h, TargetBefore)))

\* C22: a merge of a new section dated inside the window keeps the other
\* sections, the number of sections, the comment entries of the located
\* section and its dated entries outside the window, however the call ends
C22_MergeFrame ==
    (Located /\ NewInsideWindow) => OtherSectionsKept /\ CommentsKept /\ OutsideKept

\* a merge that changed and sorted a section holding entries dated before
\* and after the window
C22_Witness ==
    /\ Located /\ NewInsideWindow /\ obs.outcome = "sorted"
    /\ Records(heap, Target) # Records(obs.h, TargetBefore)
    /\ \E i, j \in Range(Outside(obs.h, TargetBefore)) :
          obs.h[i].date < icsstart /\ obs.h[j].date >= icsend

\* a merge that changed the second of two sections
C22_OtherSectionWitness ==
    /\ Located /\ NewInsideWindow /\ ~Raised
    /\ Len(obs.wf) = 2 /\ obs.target = 2
    /\ Records(heap, Target) # Records(obs.h, TargetBefore)

\* a merge that changed a section with a comment entry between its dated
\* entries
C22_CommentWitness ==
    /\ Located /\ NewInsideWindow /\ obs.outcome = "unsortable"
    /\ Len(CommentEntries(obs.h, TargetBefore)) = 2
    /\ Records(heap, Target) # Records(obs.h, TargetBefore)

(***************************************************************************)
(* C23.  Partial-fix pass of update_course, excess: when an added entry    *)
(* has two or more remaining removed entries with its date and rate whose  *)
(* hours total more than its own, the pass changes neither multiset nor    *)
(* the section for it; if the rate-mismatch pass does not consume it       *)
(* either, the apply step appends the added entry with all its hours and   *)
(* deletes one entry of the section for each of those removed entries.     *)
(***************************************************************************)
\* the added entry of event i had several rate-matches totalling more hours
ExcessFound(i) ==
    LET e == obs.log[i]
    IN  /\ e.pass = "fix"
        /\ e.matches = e.ratematches /\ Len(e.matches) >= 2
        /\ e.ahours = obs.h[e.a].hours
        /\ \A m \in Range(e.matches) :
              obs.h[m].date = obs.h[e.a].date /\ obs.h[m].rate = obs.h[e.a].rate
        /\ HoursOf(obs.h, e.matches) > e.ahours

\* a partial-fix pass that only met excesses left both multisets as the
\* sum-match pass had left them
ExcessOnlyPassIdle ==
    (\A j \in 1..Len(obs.log) : obs.log[j].pass = "fix" => obs.log[j].kind = "excess")
        => obs.snaps[2] = obs.snaps[1]

RateConsumed(a) == \E j \in Events("ratemismatch") : obs.log[j].a = a

\* the apply step appended the added entry of event i, unchanged, and took
\* out of the section one entry for each of its rate-matches
ExcessApplied(i) ==
    LET e == obs.log[i]
    IN  /\ heap[e.a] = obs.h[e.a]
        /\ Appended(e.a) >= 1
        /\ Appended(e.a) = RemainingOf(obs.snaps[4].add, e.a)
        /\ \A m \in Range(e.matches) :
              /\ m \notin Range(Target)
              /\ CountEq(heap, Target, obs.h[m])
                    = CountEq(obs.h, TargetBefore, obs.h[m]) - RemainingOf(obs.snaps[4].rem, m)

\* C23: an excess changes nothing in its pass, and an added entry the
\* rate-mismatch pass did not consume is appended whole while each of its
\* rate-matches is deleted
C23_ExcessRemovesAndAdds ==
    (Located /\ ~Raised) =>
        /\ ExcessOnlyPassIdle
        /\ \A i \in Events("excess") :
              /\ ExcessFound(i)
              /\ ~RateConsumed(obs.log[i].a) => ExcessApplied(i)

\* two entries of 2 hours were replaced by the added entry of 3 hours
C23_Witness ==
    /\ Located /\ ~Raised /\ pc = "updated"
    /\ \E i \in Events("excess") :
          /\ ~RateConsumed(obs.log[i].a) /\ ExcessApplied(i)
          /\ obs.log[i].ahours = 3
          /\ HoursOf(obs.h, obs.log[i].matches) = 4
          /\ Len(Target) = Len(TargetBefore) - 1

(***************************************************************************)
(* C24.  Unsortable section recovery: when update_course has applied       *)
(* changes to a section that has a comment entry after its title block,    *)
(* the failure of the sort is caught: the call returns normally, the       *)
(* additions and removals stay applied, and the entries keep the order     *)
(* the apply step left, the surviving added entries at the end and no      *)
(* entry reordered.                                                        *)
(***************************************************************************)
\* the section has a comment entry after its leading title block
HasInnerComment(h, ent) ==
    \E i \in (title_comment_count(h, ent) + 1)..Len(ent) : ~IsFull(h, ent[i])

\* the call changed an entry of the located section, or which entries it has
TargetChanged == Records(heap, Target) # Records(obs.h, TargetBefore)

\* the entries the section had before the call and still has, in the order
\* they had before
Kept == SelectSeq(TargetBefore, LAMBDA id : id \in Range(Target))

\* the section is what it was, less the entries deleted, followed by
\* entries of newsec
AppliedInPlace ==
    /\ SubSeq(Target, 1, Len(Kept)) = Kept
    /\ \A k \in (Len(Kept) + 1)..Len(Target) : Target[k] \in Range(newsec)

\* every added entry left by the passes is in the section as often as it was
\* left, every removed entry left was deleted
RemainderApplied ==
    /\ \A k \in 1..Len(obs.snaps[4].add) :
          LET a == obs.snaps[4].add[k].key
          IN  Appended(a) >= RemainingOf(obs.snaps[4].add, a)
    /\ Len(Target) = Len(obs.applied)
    /\ Len(TargetBefore) - Len(Kept) = Remaining(obs.snaps[4].rem)

\* C24: a call that changed the section and, after the apply step, left it
\* with a comment after its title block ends normally with the section as
\* the apply step left it.  (When the deletions leave no dated entry before
\* the comment, it has joined the title block and the sort does not fail.)
C24_UnsortableKeepsApplied ==
    (Located /\ ~Raised /\ HasInnerComment(heap, obs.applied) /\ TargetChanged) =>
        /\ obs.outcome = "unsortable"
        /\ Target = obs.applied
        /\ AppliedInPlace
        /\ RemainderApplied

\* an entry was deleted after the comment and one was appended that sorts
\* before an entry that stayed
C24_Witness ==
    /\ Located /\ obs.outcome = "unsortable" /\ pc = "updated"
    /\ HasInnerComment(obs.h, TargetBefore) /\ HasInnerComment(heap, obs.applied)
    /\ TargetChanged
    /\ Len(Kept) < Len(TargetBefore)
    /\ Len(Target) > Len(Kept)
    /\ \E i \in 1..Len(Kept) :
          /\ IsFull(heap, Kept[i])
          /\ EntryLt(heap[Target[Len(Target)]], heap[Kept[i]])

(***************************************************************************)
(* C25.  Invoice sum-match pass (_update_invoice_ignore_sum_match): an     *)
(* added item is consumed as a pure re-partitioning only if it has two or  *)
(* more matching removed items (same date, unit, rate and vat, description *)
(* within the approximate threshold) whose times total exactly its own, as *)
(* in the ledger; an added item with no matching removed item, or with     *)
(* exactly one, is never consumed by this pass, and an added item of time  *)
(* 0 with no match is not dropped.                                         *)
(***************************************************************************)
\* the items of event i match its added item and total its time
SumMatched(i) ==
    LET e == invobs.log[i]
    IN  /\ \A k \in 1..Len(e.matches) :
              LET m == e.matches[k]
              IN  /\ m.date = e.a.date /\ m.unit = e.a.unit
                  /\ m.rate = e.a.rate /\ m.vat = e.a.vat
                  /\ DescMatches(e.a, m).ok
        /\ TotalTime(e.matches) = e.a.time

\* C25 as stated: the sum-match pass consumes an added item only with two
\* or more matching removed items that total its time
C25_SumMatchNeedsSeveral ==
    Invoiced => \A i \in InvoiceEvents("sum") : SumMatched(i) /\ Len(invobs.log[i].matches) >= 2

\* what the code does: it consumes an added item whenever the matching
\* removed items total its time, however many they are
C25_SumMatchAnyNumber ==
    Invoiced => \A i \in InvoiceEvents("sum") : SumMatched(i)

\* the pass consumed an added item with the one removed item that has its
\* time and another spelling of its description: the invoice keeps the old
\* item
C25_Witness ==
    /\ Invoiced /\ invobs.outcome = "updated"
    /\ \E i \in InvoiceEvents("sum") :
          LET e == invobs.log[i]
          IN  /\ Len(e.matches) = 1
              /\ e.matches[1].desc # e.a.desc
              /\ e.matches[1] \in Range(inv.items)
              /\ e.a \notin Range(inv.items)

\* the pass consumed an added item of time 0 that no removed item matches:
\* the line of the section is in the invoice neither before nor after
C25_ZeroDropped ==
    /\ Invoiced /\ invobs.outcome = "updated"
    /\ \E i \in InvoiceEvents("sum") :
          LET e == invobs.log[i]
          IN  /\ e.matches = <<>>
              /\ e.a.time = 0
              /\ e.a \notin Range(inv.items)
              /\ e.a \notin Range(invobs.before.items)
====
